---- MODULE Spec2Model ----
(***************************************************************************)
(* The retrieval pipeline of the HR policy assistant: the chunker and the  *)
(* document indexer (src/src/rag/indexer.py), the embeddings generator     *)
(* (src/src/rag/embeddings.py), the policy retriever                       *)
(* (src/src/rag/retriever.py) and the search_policies tool                 *)
(* (src/src/mcp_servers/rag_server.py).                                    *)
(*                                                                         *)
(* Text is a sequence of one-character strings.  Python's 0-based indices  *)
(* and half-open slices are kept: Slice(t, a, b) is t[a:b].                *)
(***************************************************************************)
EXTENDS Integers, Sequences, FiniteSets, TLC

VARIABLES
  \* chunk_text (indexer.py:266-330), one call in progress
  ck_input,     \* the argument text
  ck_text,      \* the local text after whitespace clean-up
  ck_start,     \* the local start
  ck_chunks,    \* the local chunks
  ck_pc,        \* "call" | "loop" | "done"
  ck_size,      \* self.CHUNK_SIZE of the indexer the call runs on
  ck_overlap,   \* self.CHUNK_OVERLAP of the indexer the call runs on
  ck_spans,     \* for each chunk appended, where its content lies in ck_text
  \* generate_embeddings_batch (embeddings.py:141-185), one call in progress
  em_texts,       \* the argument texts
  em_batch_size,  \* the argument batch_size
  em_attempt,     \* the attempt the retry decorator is running (1..3)
  em_processed,   \* the local processed_texts
  em_i,           \* the loop variable i
  em_embeddings,  \* the local embeddings
  em_response,    \* the indices of the last response.data, in the order received
  em_result,      \* the value returned
  em_pc,          \* "call" | "loop" | "done" | "raised"
  em_requests,    \* the number of embeddings.create requests made so far
  \* generate_embedding (embeddings.py:111-139), one call in progress
  ge_model,       \* self.model, the setting openai_embedding_model
  ge_text,        \* the argument text
  ge_sent,        \* the local text after truncation
  ge_attempt,     \* the attempt the retry decorator is running (1..3)
  ge_requests,    \* how each embeddings.create request so far has ended
  ge_result,      \* the value returned
  ge_pc,          \* "call" | "request" | "done" | "raised"
  \* the Azure AI Search index and the calls made on the indexer
  store,          \* the index: a set of records, at most one per key "id"
  ix_last,        \* the last call: its arguments and what it did
  \* the retriever (PolicyRetriever, RAGMCPServer)
  sr_hits,        \* the ranking the search service gives the records for the query
  sr_call,        \* the call that has just run: its arguments and its outcome
  \* the lazily constructed network clients of one process and the
  \* coroutines of its event loop that use them
  cl_openai,      \* EmbeddingsGenerator._client: 0 for None, else the number of
                  \* the AsyncOpenAI instance
  cl_http,        \* SharePointClient._http_client: <<>> for None, else
                  \* [id, is_closed] of the httpx.AsyncClient instance
  cl_made,        \* how many instances of each client have been constructed
  cl_closes,      \* how many times close() has closed the http client
  cl_tasks,       \* for each coroutine: where it is and the client it was given
  \* truncate_to_token_limit (embeddings.py:91-109), one call
  tk_text,        \* the argument text
  tk_max,         \* the argument max_tokens: <<>> when not passed, else <<n>>
  tk_result,      \* the value returned
  tk_pc,          \* "call" | "done"
  \* the ids index_document computes for two chunks (indexer.py:370-373)
  id_a,           \* [document_id, i, chunk] of the one chunk
  id_b,           \* [document_id, i, chunk] of the other
  id_strings,     \* the strings hashed for the two, once computed
  id_pc           \* "call" | "done"

ck_vars == <<ck_input, ck_text, ck_start, ck_chunks, ck_pc,
             ck_size, ck_overlap, ck_spans>>
em_vars == <<em_texts, em_batch_size, em_attempt, em_processed, em_i,
             em_embeddings, em_response, em_result, em_pc, em_requests>>
ge_vars == <<ge_model, ge_text, ge_sent, ge_attempt, ge_requests, ge_result,
             ge_pc>>

ix_vars == <<store, ix_last>>

sr_vars == <<sr_hits, sr_call>>

cl_vars == <<cl_openai, cl_http, cl_made, cl_closes, cl_tasks>>

tk_vars == <<tk_text, tk_max, tk_result, tk_pc>>

id_vars == <<id_a, id_b, id_strings, id_pc>>

vars == <<ck_vars, em_vars, ge_vars, ix_vars, sr_vars, cl_vars, tk_vars,
          id_vars>>

\* no call made yet
NoCall == [op |-> "none", raised |-> FALSE]

\* what the calls of one component leave alone
ck_others == <<em_vars, ge_vars, ix_vars, sr_vars, cl_vars,
              tk_vars, id_vars>>
em_others == <<ck_vars, ge_vars, ix_vars, sr_vars, cl_vars,
              tk_vars, id_vars>>
ge_others == <<ck_vars, em_vars, ix_vars, sr_vars, cl_vars,
              tk_vars, id_vars>>
ix_others == <<ck_vars, em_vars, ge_vars, sr_vars, cl_vars,
              tk_vars, id_vars>>
sr_others == <<ck_vars, em_vars, ge_vars, ix_vars, cl_vars,
              tk_vars, id_vars>>
cl_others == <<ck_vars, em_vars, ge_vars, ix_vars, sr_vars,
              tk_vars, id_vars>>
tk_others == <<ck_vars, em_vars, ge_vars, ix_vars, sr_vars, cl_vars, id_vars>>
id_others == <<ck_vars, em_vars, ge_vars, ix_vars, sr_vars, cl_vars, tk_vars>>

-----------------------------------------------------------------------------
(* Integers and sequences                                                  *)

MinOf(a, b) == IF a <= b THEN a ELSE b
MaxOf(a, b) == IF a >= b THEN a ELSE b
SetMax(S) == CHOOSE x \in S : \A y \in S : y <= x
SetMin(S) == CHOOSE x \in S : \A y \in S : x <= y

\* Python's t[a:b] for 0 <= a, clamped to the text's end.
Slice(t, a, b) == SubSeq(t, a + 1, MinOf(b, Len(t)))
\* Python's t[a:]
SliceFrom(t, a) == SubSeq(t, a + 1, Len(t))
RECURSIVE SeqsUpTo(_, _)
SeqsUpTo(S, n) ==
  IF n = 0 THEN {<<>>}
  ELSE LET shorter == SeqsUpTo(S, n - 1)
       IN  shorter \cup {Append(s, x) : s \in {t \in shorter : Len(t) = n - 1}, x \in S}

\* the sequence s as a tuple (the same value, held element by element)
AsTuple(s) == SubSeq(s, 1, Len(s))
\* u repeated n times
Rep(u, n) == AsTuple([i \in 1..(n * Len(u)) |-> u[((i - 1) % Len(u)) + 1]])

-----------------------------------------------------------------------------
(* Python string operations used by chunk_text                             *)

\* The characters \s matches and str.strip() strips, among those of the
\* model's alphabet.
IsSpace(c) == c \in {" ", "\n", "\t"}

\* re.sub(r'\s+', ' ', t): every maximal run of whitespace becomes one space.
re_sub_ws(t) ==
  LET marked == [i \in 1..Len(t) |->
                   <<IF IsSpace(t[i]) THEN " " ELSE t[i],
                     IsSpace(t[i]) /\ i > 1 /\ IsSpace(t[i - 1])>>]
      RunHead(p) == ~p[2]
      kept == SelectSeq(marked, RunHead)
  IN  AsTuple([i \in 1..Len(kept) |-> kept[i][1]])

\* str.strip(): leading and trailing whitespace removed.
strip(s) ==
  LET n == Len(s)
  IN  IF \A i \in 1..n : IsSpace(s[i]) THEN <<>>
      ELSE LET first == CHOOSE i \in 1..n :
                          ~IsSpace(s[i]) /\ \A j \in 1..(i - 1) : IsSpace(s[j])
               last  == CHOOSE i \in 1..n :
                          ~IsSpace(s[i]) /\ \A j \in (i + 1)..n : IsSpace(s[j])
           IN  SubSeq(s, first, last)

\* str.rfind(pat): the highest 0-based index where pat occurs in s, or -1.
rfind(s, pat) ==
  LET P == {p \in 0..(Len(s) - Len(pat)) :
              \A k \in 1..Len(pat) : s[p + k] = pat[k]}
  IN  IF P = {} THEN -1 ELSE SetMax(P)

-----------------------------------------------------------------------------
(* DocumentIndexer.chunk_text                                              *)

CHUNK_SIZE == 1000
CHUNK_OVERLAP == 200
\* the literal 100 of the sentence search window, the literal 50 of the word
\* search window
SENTENCE_SLACK == 100
WORD_SLACK == 50

\* the number of chunks a call is followed for
MaxPasses == 4

\* the number of calls of SharePointClient.close() that are followed
MaxCloses == 1

\* the clean-up without the strip()
CleanWhitespace_NoStrip(t) == re_sub_ws(t)

\* line 280: text = re.sub(r'\s+', ' ', text).strip()
CleanWhitespace(t) == strip(re_sub_ws(t))

\* line 304: the sentence endings, in the order the loop tries them
SentencePatterns ==
  << <<".", " ">>, <<".", "\n">>, <<"?", " ">>, <<"?", "\n">>,
     <<"!", " ">>, <<"!", "\n">>, <<"\n", "\n">> >>

\* lines 303-310: the for loop over the patterns from pattern number k on;
\* the first pattern found past the midpoint ends the loop.  size is
\* self.CHUNK_SIZE.
RECURSIVE SentenceBreak_Unbounded(_, _, _, _, _)
SentenceBreak_Unbounded(size, text, start, search_start, k) ==
  IF k > Len(SentencePatterns) THEN -1
  ELSE LET search_end  == Len(text)
           search_text == Slice(text, search_start, search_end)
           pattern     == SentencePatterns[k]
           pos         == rfind(search_text, pattern)
           actual_pos  == search_start + pos + Len(pattern)
       IN  IF pos # -1 /\ actual_pos > start + (size \div 2)
             THEN actual_pos
             ELSE SentenceBreak_Unbounded(size, text, start, search_start, k + 1)

RECURSIVE SentenceBreak(_, _, _, _, _)
SentenceBreak(size, text, start, search_start, k) ==
  IF k > Len(SentencePatterns) THEN -1
  ELSE LET search_end  == MinOf(start + size + SENTENCE_SLACK, Len(text))
           search_text == Slice(text, search_start, search_end)
           pattern     == SentencePatterns[k]
           pos         == rfind(search_text, pattern)
           actual_pos  == search_start + pos + Len(pattern)
       IN  IF pos # -1 /\ actual_pos > start + (size \div 2)
             THEN actual_pos
             ELSE SentenceBreak(size, text, start, search_start, k + 1)

\* the word boundary or the hard cut of lines 312-319, with no sentence search
BestBreak_WordOnly(size, text, start) ==
  LET end         == start + size
      search_text == Slice(text, start, end + WORD_SLACK)
      space_pos   == rfind(search_text, <<" ">>)
  IN  IF space_pos > size \div 2 THEN start + space_pos ELSE end

\* best_break with a hard cut after CHUNK_OVERLAP characters
BestBreak_ShortCut(size, text, start) ==
  LET end          == start + size
      search_start == MaxOf(start + size - SENTENCE_SLACK, start)
      sentence     == SentenceBreak(size, text, start, search_start, 1)
  IN  IF sentence # -1 THEN sentence
      ELSE LET search_text == Slice(text, start, end + WORD_SLACK)
               space_pos   == rfind(search_text, <<" ">>)
           IN  IF space_pos > size \div 2
                 THEN start + space_pos
                 ELSE start + CHUNK_OVERLAP

\* lines 297-319: best_break of one loop iteration (end < len(text))
BestBreak(size, text, start) ==
  LET end          == start + size
      search_start == MaxOf(start + size - SENTENCE_SLACK, start)
      sentence     == SentenceBreak(size, text, start, search_start, 1)
  IN  IF sentence # -1 THEN sentence
      ELSE LET search_text == Slice(text, start, end + WORD_SLACK)
               space_pos   == rfind(search_text, <<" ">>)
           IN  IF space_pos > size \div 2
                 THEN start + space_pos
                 ELSE end

\* the next start past the break
NextStart_Gap(overlap, best_break) == best_break + overlap

\* the next start without the overlap
NextStart_NoOverlap(overlap, best_break) == best_break

\* lines 325-328: the next start; overlap is self.CHUNK_OVERLAP
NextStart(overlap, best_break) ==
  IF best_break - overlap < 0 THEN best_break
  ELSE best_break - overlap

\* lines 282-283: the early return for a text that fits one chunk
FitsOneChunk(size, text) == Len(text) <= size

\* lines 288-328: one evaluation of the while condition and, when it holds,
\* one pass through the loop body.  done: the function returns chunks.
\* window: the slice text[start:best_break] (text[start:] for the last chunk)
\* that the pass stripped, as <<start, best_break>>.
LoopStep(size, overlap, text, start, chunks) ==
  IF ~(start < Len(text))
    THEN [done |-> TRUE, start |-> start, chunks |-> chunks,
          window |-> <<start, start>>]
  ELSE IF start + size >= Len(text)
    THEN [done |-> TRUE, start |-> start,
          chunks |-> Append(chunks, strip(SliceFrom(text, start))),
          window |-> <<start, Len(text)>>]
  ELSE LET best_break == BestBreak(size, text, start)
           chunk      == strip(Slice(text, start, best_break))
       IN  [done |-> FALSE, start |-> NextStart(overlap, best_break),
            chunks |-> IF chunk # <<>> THEN Append(chunks, chunk) ELSE chunks,
            window |-> <<start, best_break>>]

\* Where the content of a chunk lies in the cleaned text: the window
\* text[a:b] that was stripped, and the half-open span [begin, end) that
\* strip() left of it.
Span(text, a, b) ==
  LET slice == Slice(text, a, b)
      lead  == Cardinality({i \in 1..Len(slice) :
                              \A j \in 1..i : IsSpace(slice[j])})
  IN  [start |-> a, best_break |-> b,
       begin |-> a + lead, end |-> a + lead + Len(strip(slice))]

\* lines 279-286: the call, up to the loop
ChunkCall ==
  /\ ck_pc = "call"
  /\ LET text == CleanWhitespace(ck_input)
     IN  /\ ck_text' = text
         /\ IF FitsOneChunk(ck_size, text)
              THEN /\ ck_chunks' = (IF text # <<>> THEN <<text>> ELSE <<>>)
                   /\ ck_spans' = (IF text # <<>>
                                     THEN <<Span(text, 0, Len(text))>> ELSE <<>>)
                   /\ ck_pc' = "done"
              ELSE /\ ck_chunks' = <<>>
                   /\ ck_spans' = <<>>
                   /\ ck_pc' = "loop"
  /\ ck_start' = 0
  /\ UNCHANGED <<ck_input, ck_size, ck_overlap>>

\* lines 288-330: one iteration of the while loop, or its exit.  A loop that
\* does not end is followed for MaxPasses chunks.
ChunkLoop ==
  /\ ck_pc = "loop"
  /\ Len(ck_chunks) < MaxPasses
  /\ LET s == LoopStep(ck_size, ck_overlap, ck_text, ck_start, ck_chunks)
     IN  /\ ck_start' = s.start
         /\ ck_chunks' = s.chunks
         /\ ck_spans' = IF Len(s.chunks) > Len(ck_chunks)
                          THEN Append(ck_spans,
                                      Span(ck_text, s.window[1], s.window[2]))
                          ELSE ck_spans
         /\ ck_pc' = IF s.done THEN "done" ELSE "loop"
  /\ UNCHANGED <<ck_input, ck_text, ck_size, ck_overlap>>

\* chunk_text as a function of its argument (the value index_document uses)
RECURSIVE RunLoop(_, _, _)
RunLoop(text, start, chunks) ==
  LET s == LoopStep(CHUNK_SIZE, CHUNK_OVERLAP, text, start, chunks)
  IN  IF s.done THEN s.chunks ELSE RunLoop(text, s.start, s.chunks)

chunk_text(t) ==
  LET text == CleanWhitespace(t)
  IN  IF FitsOneChunk(CHUNK_SIZE, text)
        THEN (IF text # <<>> THEN <<text>> ELSE <<>>)
        ELSE RunLoop(text, 0, <<>>)

-----------------------------------------------------------------------------
(* EmbeddingsGenerator: the tokenizer                                      *)

\* MODEL_TOKEN_LIMITS / token_limit: 8191 for every model
TOKEN_LIMIT == 8191
\* stop_after_attempt(3)
MAX_ATTEMPTS == 3
\* the default batch_size of generate_embeddings_batch
DEFAULT_BATCH_SIZE == 100

\* The encoding's pieces: a single character, or a space together with the
\* non-space character after it.  A character begins a piece unless it is a
\* non-space character right after a space.
BeginsToken(text, i) == text[i] = " " \/ i = 1 \/ text[i - 1] # " "

\* encoding.encode(text): the sequence of the text's pieces
encode(text) ==
  LET Marked(p) == p[2]
      at == SelectSeq([i \in 1..Len(text) |-> <<i, BeginsToken(text, i)>>], Marked)
  IN  AsTuple([k \in 1..Len(at) |->
         SubSeq(text, at[k][1],
                (IF k < Len(at) THEN at[k + 1][1] ELSE Len(text) + 1) - 1)])

\* encoding.decode(tokens): the pieces joined
decode(tokens) ==
  IF tokens = <<>> THEN <<>>
  ELSE LET w == SetMax({Len(tokens[k]) : k \in 1..Len(tokens)})
           cells == [j \in 1..(Len(tokens) * w) |->
                       LET k == ((j - 1) \div w) + 1
                           r == ((j - 1) % w) + 1
                       IN  IF r <= Len(tokens[k]) THEN <<tokens[k][r], TRUE>>
                                                  ELSE <<"", FALSE>>]
           Filled(c) == c[2]
           kept == SelectSeq(cells, Filled)
       IN  AsTuple([j \in 1..Len(kept) |-> kept[j][1]])

\* count_tokens (lines 79-89)
count_tokens(text) == Len(encode(text))

\* truncate_to_token_limit (lines 91-109); max_tokens is <<>> when the caller
\* passes none and <<n>> when it passes n.  Python's "max_tokens or self.token_limit" takes the
\* limit for None and for 0.
truncate_to_token_limit(text, max_tokens) ==
  LET limit  == IF max_tokens = <<>> \/ max_tokens[1] = 0
                  THEN TOKEN_LIMIT ELSE max_tokens[1]
      tokens == encode(text)
  IN  IF Len(tokens) <= limit THEN text
      ELSE decode(SubSeq(tokens, 1, limit))

\* one call truncate_to_token_limit(tk_text, max_tokens) of a caller that
\* passes max_tokens, or passes none
TruncateCall ==
  /\ tk_pc = "call"
  /\ tk_result' = truncate_to_token_limit(tk_text, tk_max)
  /\ tk_pc' = "done"
  /\ UNCHANGED <<tk_text, tk_max>>

-----------------------------------------------------------------------------
(* EmbeddingsGenerator.generate_embeddings_batch                           *)

\* The vector the embedding service computes for an input text.
ServiceVector(input) == [kind |-> "embedding", input |-> input]

\* lines 160-167: the text sent for one input text
Preprocess(text) ==
  LET truncated == truncate_to_token_limit(text, <<>>)
  IN  IF strip(truncated) # <<>> THEN truncated ELSE <<" ">>

processed_texts(texts) == [k \in 1..Len(texts) |-> Preprocess(texts[k])]

\* The orders in which the service may list the n items of a response.
Orders(n) == {o \in [1..n -> 0..(n - 1)] : \A a, b \in 1..n : a # b => o[a] # o[b]}

\* response.data of embeddings.create(input=batch) when the service lists its
\* items in the given order: each item carries its index in the request.
ResponseData(batch, order) ==
  [k \in 1..Len(batch) |->
     [index |-> order[k], embedding |-> ServiceVector(batch[order[k] + 1])]]

\* response.data as received, with no sorting
Unsorted(data) == data

\* line 182: sorted(response.data, key=lambda x: x.index)
SortedByIndex(data) ==
  [k \in 1..Len(data) |->
     data[CHOOSE j \in 1..Len(data) :
            Cardinality({h \in 1..Len(data) : data[h].index < data[j].index})
              = k - 1]]

\* lines 172-183: the embeddings one batch adds
BatchEmbeddings(batch, order) ==
  LET batch_embeddings == SortedByIndex(ResponseData(batch, order))
  IN  [k \in 1..Len(batch_embeddings) |-> batch_embeddings[k].embedding]

\* an attempt that begins with the embeddings the attempt before collected
EmbedBegin_KeepEmbeddings ==
  /\ em_pc = "call"
  /\ em_processed' = processed_texts(em_texts)
  /\ em_i' = 0
  /\ em_pc' = "loop"
  /\ UNCHANGED <<em_texts, em_batch_size, em_attempt, em_response, em_result,
                 em_requests, em_embeddings>>

\* lines 160-169: an attempt begins (the first, or one the retry decorator
\* starts after a failure): the texts are preprocessed, embeddings is empty.
EmbedBegin ==
  /\ em_pc = "call"
  /\ em_processed' = processed_texts(em_texts)
  /\ em_embeddings' = <<>>
  /\ em_i' = 0
  /\ em_pc' = "loop"
  /\ UNCHANGED <<em_texts, em_batch_size, em_attempt, em_response, em_result,
                 em_requests>>

\* lines 171-183: the request for the batch at i succeeds
EmbedBatchOk ==
  /\ em_pc = "loop"
  /\ em_i < Len(em_processed)
  /\ LET batch == Slice(em_processed, em_i, em_i + em_batch_size)
     IN  \E order \in Orders(Len(batch)) :
           /\ em_response' = order
           /\ em_embeddings' = em_embeddings \o BatchEmbeddings(batch, order)
  /\ em_i' = em_i + em_batch_size
  /\ em_requests' = em_requests + 1
  /\ UNCHANGED <<em_texts, em_batch_size, em_attempt, em_processed, em_result, em_pc>>

\* lines 141-144, 176-179: the request for the batch at i raises; the retry
\* decorator runs the function again, or gives up after the third attempt.
EmbedBatchFail ==
  /\ em_pc = "loop"
  /\ em_i < Len(em_processed)
  /\ IF em_attempt < MAX_ATTEMPTS
       THEN /\ em_attempt' = em_attempt + 1
            /\ em_pc' = "call"
       ELSE /\ em_pc' = "raised"
            /\ UNCHANGED em_attempt
  /\ em_requests' = em_requests + 1
  /\ UNCHANGED <<em_texts, em_batch_size, em_processed, em_i, em_embeddings,
                 em_response, em_result>>

\* line 185: the loop is over, embeddings is returned
EmbedReturn ==
  /\ em_pc = "loop"
  /\ ~(em_i < Len(em_processed))
  /\ em_result' = em_embeddings
  /\ em_pc' = "done"
  /\ UNCHANGED <<em_texts, em_batch_size, em_attempt, em_processed, em_i,
                 em_embeddings, em_response, em_requests>>

-----------------------------------------------------------------------------
(* EmbeddingsGenerator.generate_embeddings_batch as a function of its      *)
(* arguments and of the order the service lists each batch in              *)

\* lines 171-183 from the batch at i on; order_of[i] is the order of the
\* response to the batch at i
RECURSIVE EmbedFrom(_, _, _, _)
EmbedFrom(processed, batch_size, i, order_of) ==
  IF ~(i < Len(processed)) THEN <<>>
  ELSE BatchEmbeddings(Slice(processed, i, i + batch_size), order_of[i])
         \o EmbedFrom(processed, batch_size, i + batch_size, order_of)

\* the values i takes in range(0, n, batch_size)
BatchStarts(n, batch_size) == {i \in 0..(n - 1) : i % batch_size = 0}

\* for every batch, an order the service may list it in
OrderChoices(n, batch_size) ==
  LET starts == BatchStarts(n, batch_size)
      size(i) == MinOf(i + batch_size, n) - i
  IN  {f \in [starts -> UNION {Orders(size(i)) : i \in starts}] :
         \A i \in starts : f[i] \in Orders(size(i))}

\* the values a call that does not raise may return
EmbeddingsBatchValues(texts, batch_size) ==
  {EmbedFrom(processed_texts(texts), batch_size, 0, order_of) :
     order_of \in OrderChoices(Len(texts), batch_size)}

-----------------------------------------------------------------------------
(* EmbeddingsGenerator.generate_embedding                                  *)

\* the models of MODEL_DIMENSIONS (lines 36-40) and one that is not listed
MODEL_SMALL == "text-embedding-3-small"
MODEL_LARGE == "text-embedding-3-large"
MODEL_ADA == "text-embedding-ada-002"
MODEL_OTHER == "other-embedding-model"

\* the dimensions property (lines 74-77): MODEL_DIMENSIONS.get(model, 1536)
dimensions(model) ==
  IF model = MODEL_SMALL THEN 1536
  ELSE IF model = MODEL_LARGE THEN 3072
  ELSE IF model = MODEL_ADA THEN 1536
  ELSE 1536

\* line 130: [0.0] * self.dimensions
ZeroVector(model) == Rep(<<0>>, dimensions(model))

\* the test that takes only the empty text for blank
IsBlank_OnlyEmpty(text) == text = <<>>

\* line 128: not text.strip()
IsBlank(text) == strip(text) = <<>>

\* How a request to the embedding service can fail: a transient failure
\* (network, rate limit, 5xx), an authentication error, a malformed request.
FailureKinds == {"transient", "auth", "malformed"}

\* the attempt count at which the decorator stops one attempt too late
ShouldStop_OneMore(attempt) == attempt >= MAX_ATTEMPTS + 1

\* line 112: stop=stop_after_attempt(3)
ShouldStop(attempt) == attempt >= MAX_ATTEMPTS

\* lines 125-130: an attempt begins (the first, or one the retry decorator
\* starts after a failure): the text is truncated, a blank text returns the
\* zero vector.
GenBegin ==
  /\ ge_pc = "call"
  /\ LET text == truncate_to_token_limit(ge_text, <<>>)
     IN  /\ ge_sent' = text
         /\ IF IsBlank(text)
              THEN /\ ge_result' = ZeroVector(ge_model)
                   /\ ge_pc' = "done"
              ELSE /\ ge_pc' = "request"
                   /\ UNCHANGED ge_result
  /\ UNCHANGED <<ge_model, ge_text, ge_attempt, ge_requests>>

\* lines 134-139: the request succeeds, the embedding of its first item is
\* returned
GenRequestOk ==
  /\ ge_pc = "request"
  /\ ge_requests' = Append(ge_requests, "ok")
  /\ ge_result' = ServiceVector(ge_sent)
  /\ ge_pc' = "done"
  /\ UNCHANGED <<ge_model, ge_text, ge_sent, ge_attempt>>

\* lines 111-114, 134-137: the request raises.  The decorator names no
\* exception type, so it treats every exception alike: it runs the function
\* again, or raises RetryError once stop_after_attempt(3) is reached.
GenRequestFail(kind) ==
  /\ ge_pc = "request"
  /\ ge_requests' = Append(ge_requests, kind)
  /\ IF ShouldStop(ge_attempt)
       THEN /\ ge_pc' = "raised"
            /\ UNCHANGED ge_attempt
       ELSE /\ ge_attempt' = ge_attempt + 1
            /\ ge_pc' = "call"
  /\ UNCHANGED <<ge_model, ge_text, ge_sent, ge_result>>

-----------------------------------------------------------------------------
(* The id of a chunk (DocumentIndexer.index_document, lines 371-373)       *)

\* chunk[:100] in the chunk id
ID_PREFIX_LEN == 100

DigitChars == <<"0", "1", "2", "3", "4", "5", "6", "7", "8", "9">>

\* str(i) for i >= 0
RECURSIVE str(_)
str(i) ==
  IF i < 10 THEN <<DigitChars[i + 1]>>
  ELSE Append(str(i \div 10), DigitChars[(i % 10) + 1])

\* the id without the beginning of the content
chunk_id_no_prefix(document_id, i, chunk) ==
  document_id \o <<"_">> \o str(i) \o <<"_">>

\* lines 371-373: the string f"{document.id}_{i}_{chunk[:100]}" whose hash is
\* the chunk id.  The hash is taken to be injective, so the string stands for
\* the id.
chunk_id(document_id, i, chunk) ==
  document_id \o <<"_">> \o str(i) \o <<"_">> \o Slice(chunk, 0, ID_PREFIX_LEN)

\* lines 370-373 for two chunks: the strings that are hashed for their ids
ComputeChunkIds ==
  /\ id_pc = "call"
  /\ id_strings' = <<chunk_id(id_a.document_id, id_a.i, id_a.chunk),
                     chunk_id(id_b.document_id, id_b.i, id_b.chunk)>>
  /\ id_pc' = "done"
  /\ UNCHANGED <<id_a, id_b>>

-----------------------------------------------------------------------------
(* The search index (azure.search.documents.SearchClient)                  *)

\* upload_documents with the key of every uploaded document fresh: a record
\* is added even when the index holds one with the same "id"
upload_as_insert(st, documents, succeeded) ==
  st \cup {[documents[k] EXCEPT
              !.id = documents[k].id \o <<"#">> \o str(Cardinality(st))] :
             k \in succeeded}

\* upload_documents(documents): each document whose indexing result is
\* .succeeded replaces the record with its key, or is added.
upload_documents(st, documents, succeeded) ==
  LET keys == {documents[k].id : k \in succeeded}
  IN  {r \in st : r.id \notin keys} \cup {documents[k] : k \in succeeded}

\* delete_documents that removes nothing
delete_nothing(st, chunk_ids) == st

\* delete_documents([{"id": cid} ...])
delete_documents(st, chunk_ids) == {r \in st : r.id \notin chunk_ids}

\* search(search_text="*", filter="document_id eq '...'")
ByDocumentId(st, document_id) == {r \in st : r.document_id = document_id}

\* search(search_text="*", filter="document_name eq '...'")
ByDocumentName(st, document_name) == {r \in st : r.document_name = document_name}

-----------------------------------------------------------------------------
(* The documents of the SharePoint folder (SharePointDocument)             *)

\* extracted texts: two chunks; one chunk that begins as the first of the
\* two does; one chunk that begins otherwise; one chunk of another document;
\* whitespace only; nothing (the extraction failed)
TEXT_V1 == Rep(<<"A", "b", ".", " ">>, 300)
TEXT_V2 == Rep(<<"A", "b", ".", " ">>, 200)
TEXT_V3 == Rep(<<"C", "d", ".", " ">>, 200)
TEXT_S == Rep(<<"E", "f", ".", " ">>, 30)
TEXT_BLANK == <<" ", "\n">>
TEXT_NONE == <<>>

Document(id, name, is_supported, text) ==
  [id |-> id, name |-> name, web_url |-> <<"u">> \o id,
   is_supported |-> is_supported, text |-> text]

\* The documents index_document is called on: d1 in several revisions of
\* its content, d2 under its name and under the name d1 has.
Revisions ==
  {Document(<<"d", "1">>, <<"n", "1">>, TRUE, t) :
     t \in {TEXT_V1, TEXT_V2, TEXT_BLANK, TEXT_NONE}}
    \cup {Document(<<"d", "2">>, n, TRUE, TEXT_S) :
            n \in {<<"n", "2">>, <<"n", "1">>}}

\* The items list_documents is seen to return: d1, with a content that can
\* be extracted or not, d2, and d3, which is of an unsupported type.
Listed ==
  {Document(<<"d", "1">>, <<"n", "1">>, TRUE, TEXT_V1),
   Document(<<"d", "1">>, <<"n", "1">>, TRUE, TEXT_NONE),
   Document(<<"d", "2">>, <<"n", "2">>, TRUE, TEXT_S),
   Document(<<"d", "3">>, <<"n", "3">>, FALSE, TEXT_S)}

\* The contents d1 has had over time, each a version index_document may be
\* called on.
Versions ==
  {Document(<<"d", "1">>, <<"n", "1">>, TRUE, t) :
     t \in {TEXT_V1, TEXT_V2, TEXT_V3, TEXT_BLANK, TEXT_NONE}}

DocumentIds == {d.id : d \in Revisions}
DocumentNames == {d.name : d \in Revisions}

\* the extracted texts of these documents
FolderTexts == {d.text : d \in Revisions \cup Listed \cup Versions}

\* chunk_text of these texts, computed once
KnownChunks == [text \in FolderTexts |-> chunk_text(text)]

\* the values generate_embeddings_batch may return for these chunks,
\* computed once
KnownEmbeddings ==
  [chunks \in {KnownChunks[text] : text \in FolderTexts} \ {<<>>} |->
     EmbeddingsBatchValues(chunks, DEFAULT_BATCH_SIZE)]

-----------------------------------------------------------------------------
(* DocumentIndexer.index_document, index_all_documents,                    *)
(* delete_document_chunks                                                  *)

\* lines 366-384: documents_to_index.  "created_at", the time of the call,
\* is left out: no query of the program selects or filters on it.
documents_to_index(document, chunks, embeddings) ==
  [k \in 1..MinOf(Len(chunks), Len(embeddings)) |->
     [id             |-> chunk_id(document.id, k - 1, chunks[k]),
      document_id    |-> document.id,
      document_name  |-> document.name,
      chunk_index    |-> k - 1,
      content        |-> chunks[k],
      content_vector |-> embeddings[k],
      source_url     |-> document.web_url]]

Raised(st, cause) ==
  [raised |-> TRUE, cause |-> cause, value |-> 0, store |-> st,
   chunk_ids |-> {}, uploaded |-> FALSE]

Returned(st, value, chunk_ids, uploaded) ==
  [raised |-> FALSE, cause |-> "none", value |-> value, store |-> st,
   chunk_ids |-> chunk_ids, uploaded |-> uploaded]

\* lines 386-392: the upload and the count of the succeeded items
UploadOutcomes(st, to_index) ==
  LET ids == {to_index[k].id : k \in 1..Len(to_index)}
  IN  {Raised(st, "upload")}
        \cup {Returned(upload_documents(st, to_index, succeeded),
                       Cardinality(succeeded), ids, TRUE) :
                succeeded \in SUBSET (1..Len(to_index))}

\* line 357: chunk_text(text)
ChunksOf(text) ==
  IF text \in DOMAIN KnownChunks THEN KnownChunks[text] ELSE chunk_text(text)

\* line 364: the values generate_embeddings_batch(chunks) may return
EmbeddingsOf(chunks) ==
  IF chunks \in DOMAIN KnownEmbeddings THEN KnownEmbeddings[chunks]
  ELSE EmbeddingsBatchValues(chunks, DEFAULT_BATCH_SIZE)

\* index_document uploading each chunk as soon as its vector is there: a
\* failure of the embedding leaves the chunks before it in the index
IndexDocumentOutcomes_Streaming(st, document) ==
  {Raised(st, "download")}
    \cup
  (IF document.text = <<>> THEN {Returned(st, 0, {}, FALSE)}
   ELSE LET chunks == ChunksOf(document.text)
        IN  IF chunks = <<>> THEN {Returned(st, 0, {}, FALSE)}
            ELSE {[Raised(st, "embedding") EXCEPT
                     !.store = upload_documents(st,
                                 documents_to_index(document, chunks, embeddings),
                                 1..n)] :
                    embeddings \in EmbeddingsOf(chunks),
                    n \in 0..(Len(chunks) - 1)}
                   \cup UNION {UploadOutcomes(st,
                                  documents_to_index(document, chunks, embeddings)) :
                               embeddings \in EmbeddingsOf(chunks)})

\* lines 332-392: what one call of index_document may do to the index st:
\* the download, the embedding or the upload raises, or the call returns.
\* document.text is what extract_text yields for the downloaded content
\* (empty when the extraction fails).
IndexDocumentOutcomes(st, document) ==
  {Raised(st, "download")}
    \cup
  (IF document.text = <<>> THEN {Returned(st, 0, {}, FALSE)}
   ELSE LET chunks == ChunksOf(document.text)
        IN  IF chunks = <<>> THEN {Returned(st, 0, {}, FALSE)}
            ELSE {Raised(st, "embedding")}
                   \cup UNION {UploadOutcomes(st,
                                  documents_to_index(document, chunks, embeddings)) :
                               embeddings \in EmbeddingsOf(chunks)})

\* the loop of index_all_documents with no try/except: the first failure
\* ends the call
RECURSIVE IndexEach_NoCatch(_, _, _, _)
IndexEach_NoCatch(st, docs, results, calls) ==
  IF docs = <<>>
    THEN {[raised |-> FALSE, store |-> st, results |-> results, calls |-> calls]}
  ELSE UNION {
         LET call == [document_id |-> Head(docs).id, raised |-> o.raised,
                      value |-> o.value]
         IN  IF o.raised
               THEN {[raised |-> TRUE, store |-> o.store, results |-> results,
                      calls |-> Append(calls, call)]}
               ELSE IndexEach_NoCatch(o.store, Tail(docs),
                      [n \in DOMAIN results \cup {Head(docs).name} |->
                         IF n = Head(docs).name THEN o.value ELSE results[n]],
                      Append(calls, call)) :
         o \in IndexDocumentOutcomes(st, Head(docs))}

\* lines 411-420: the loop over supported_docs; results maps names to counts,
\* calls lists the calls of index_document made
RECURSIVE IndexEach(_, _, _, _)
IndexEach(st, docs, results, calls) ==
  IF docs = <<>>
    THEN {[raised |-> FALSE, store |-> st, results |-> results, calls |-> calls]}
  ELSE UNION {
         IndexEach(o.store, Tail(docs),
                   [n \in DOMAIN results \cup {Head(docs).name} |->
                      IF n = Head(docs).name
                        THEN (IF o.raised THEN 0 ELSE o.value)
                        ELSE results[n]],
                   Append(calls, [document_id |-> Head(docs).id,
                                  raised |-> o.raised, value |-> o.value])) :
         o \in IndexDocumentOutcomes(st, Head(docs))}

\* line 408: supported_docs
IsSupported(d) == d.is_supported
supported_docs(documents) == SelectSeq(documents, IsSupported)

\* index_document(document) is called
IndexDocument(document) ==
  \E o \in IndexDocumentOutcomes(store, document) :
    /\ store' = o.store
    /\ ix_last' =
         [op |-> "index_document", document |-> document,
          raised |-> o.raised, cause |-> o.cause, value |-> o.value,
          chunk_ids |-> o.chunk_ids, uploaded |-> o.uploaded,
          \* the call before was index_document of the same document and
          \* indexed every chunk of it
          rerun |-> /\ ix_last.op = "index_document"
                    /\ ix_last.document = document
                    /\ ~ix_last.raised
                    /\ ix_last.uploaded
                    /\ ix_last.value = Cardinality(ix_last.chunk_ids),
          \* the number of records the call before removed, when it was
          \* delete_document_chunks of this document and returned; else -1
          deleted_before |->
            IF /\ ix_last.op = "delete_document_chunks"
               /\ ix_last.document_id = document.id
               /\ ~ix_last.raised
              THEN ix_last.indexed_before ELSE -1]

\* index_all_documents() is called and list_documents returns documents
IndexAllDocuments(documents) ==
  \E o \in IndexEach(store, supported_docs(documents), <<>>, <<>>) :
    /\ store' = o.store
    /\ ix_last' = [op |-> "index_all_documents", documents |-> documents,
                   listed |-> TRUE, raised |-> o.raised,
                   results |-> o.results, calls |-> o.calls]

\* index_all_documents() is called and ensure_index_exists or list_documents
\* raises (lines 401-405, outside the try)
IndexAllDocumentsFails ==
  /\ store' = store
  /\ ix_last' = [op |-> "index_all_documents", documents |-> <<>>,
                 listed |-> FALSE, raised |-> TRUE,
                 results |-> <<>>, calls |-> <<>>]

\* lines 422-445: delete_document_chunks(document_id) is called; the search
\* or the delete may raise
DeleteDocumentChunks(document_id) ==
  LET results   == ByDocumentId(store, document_id)
      chunk_ids == {r.id : r \in results}
  IN  \E raises \in BOOLEAN :
        /\ store' = IF raises THEN store ELSE delete_documents(store, chunk_ids)
        /\ ix_last' = [op |-> "delete_document_chunks",
                       document_id |-> document_id, raised |-> raises,
                       value |-> Cardinality(chunk_ids),
                       indexed_before |-> Cardinality(results),
                       names_before |-> {r.document_name : r \in results}]

-----------------------------------------------------------------------------
(* PolicyRetriever.get_document_chunks                                     *)

\* get_document_chunks(document_name, max_chunks: int = 50)
DEFAULT_MAX_CHUNKS == 50

\* the score get_document_chunks gives every chunk (1.0), in tenths
FULL_SCORE == 10

\* RetrievalResult(id=..., document_name=..., content=..., score=...,
\* source_url=..., chunk_index=...) built from a record of the index
RetrievalResult(r, score) ==
  [id |-> r.id, document_name |-> r.document_name, content |-> r.content,
   score |-> score, source_url |-> r.source_url, chunk_index |-> r.chunk_index]

\* order_by=["chunk_index asc"]: the lists of the records of S by ascending
\* chunk_index; records with equal chunk_index come in any order
RECURSIVE ByChunkIndexAsc(_)
ByChunkIndexAsc(S) ==
  IF S = {} THEN {<<>>}
  ELSE LET lowest == SetMin({r.chunk_index : r \in S})
       IN  UNION {{<<r>> \o rest : rest \in ByChunkIndexAsc(S \ {r})} :
                  r \in {x \in S : x.chunk_index = lowest}}

\* lines 226-245: the values get_document_chunks may return on the index st
get_document_chunks(st, document_name, max_chunks) ==
  {[k \in 1..MinOf(Len(results), max_chunks) |->
      RetrievalResult(results[k], FULL_SCORE)] :
     results \in ByChunkIndexAsc(ByDocumentName(st, document_name))}

\* get_document_chunks(document_name) is called; the search may raise
GetDocumentChunks(document_name) ==
  /\ store' = store
  /\ \E raises \in BOOLEAN :
       \E results \in (IF raises THEN {<<>>}
                       ELSE get_document_chunks(store, document_name,
                                                DEFAULT_MAX_CHUNKS)) :
         ix_last' = [op |-> "get_document_chunks",
                     document_name |-> document_name,
                     raised |-> raises, results |-> results]

-----------------------------------------------------------------------------
(* PolicyRetriever.search and search_with_context.  Scores are in tenths:  *)
(* 7 is the score 0.7.                                                     *)

\* search(query, top_k, min_score: float = 0.7, ...)
DEFAULT_MIN_SCORE == 7

\* score=0.5, the score of a context chunk
CONTEXT_SCORE == 5

\* the number of results the service returns to a search that gives no top
SERVICE_DEFAULT_TOP == 50

\* the place of a character in the order of the code points
CodeOrder == <<"0", "1", "2", "3", "4", "5", "6", "7", "8", "9", "d", "n">>
ord(c) == CHOOSE k \in 1..Len(CodeOrder) : CodeOrder[k] = c

\* a < b for two str
StrLess(a, b) ==
  \E k \in 1..(MinOf(Len(a), Len(b)) + 1) :
    /\ \A j \in 1..(k - 1) : a[j] = b[j]
    /\ \/ k > Len(a) /\ k <= Len(b)
       \/ k <= Len(a) /\ k <= Len(b) /\ ord(a[k]) < ord(b[k])

\* the record of the index st with the key id
RecordOf(st, id) == CHOOSE r \in st : r.id = id

\* lines 94-97: document_filter is None, or falsy, or a name.  The filter
\* is <<>> for None and <<name>> for a name.
Matches(r, document_filter) ==
  \/ document_filter = <<>>
  \/ document_filter[1] = <<>>
  \/ r.document_name = document_filter[1]

\* lines 100-106: what the service returns to the hybrid query: the first
\* "top" of the records that pass the filter, in the order of the ranking
\* hits, each with its score
Candidates(st, hits, document_filter, top) ==
  LET Passes(h) == Matches(RecordOf(st, h.id), document_filter)
      passing == SelectSeq(hits, Passes)
  IN  [k \in 1..MinOf(top, Len(passing)) |->
         [record |-> RecordOf(st, passing[k].id), score |-> passing[k].score]]

\* no threshold: every score passes
NoThreshold(score, min_score) == FALSE

\* the threshold taken for a bound a score must stay under
AtMostThreshold(score, min_score) == score > min_score

\* the threshold excluding the scores equal to it
BelowOrAtThreshold(score, min_score) == score <= min_score

\* line 112: if score < min_score: continue
BelowThreshold(score, min_score) == score < min_score

\* lines 108-129: the loop over the results from the k-th on
RECURSIVE SearchLoop(_, _, _, _, _)
SearchLoop(results, k, top_k, min_score, retrieval_results) ==
  IF k > Len(results) THEN retrieval_results
  ELSE IF BelowThreshold(results[k].score, min_score)
         THEN SearchLoop(results, k + 1, top_k, min_score, retrieval_results)
         ELSE LET appended == Append(retrieval_results,
                                     RetrievalResult(results[k].record,
                                                     results[k].score))
              IN  IF Len(appended) >= top_k THEN appended
                  ELSE SearchLoop(results, k + 1, top_k, min_score, appended)

\* lines 62-132: the list search returns when nothing fails
search(st, hits, top_k, min_score, document_filter) ==
  SearchLoop(Candidates(st, hits, document_filter, top_k * 2), 1, top_k,
             min_score, <<>>)

\* a call of the retriever that raises, the step named by failed having failed
Raises(failed) == [raised |-> TRUE, failed |-> failed, results |-> <<>>]

\* a call of the retriever that returns results
Returns(results) == [raised |-> FALSE, failed |-> "none", results |-> results]

\* lines 62-132: generate_embedding raises (after its retries), the search
\* of the index raises, or the list is returned
SearchOutcomes(st, hits, top_k, min_score, document_filter) ==
  {Raises("embedding"), Raises("store"),
   Returns(search(st, hits, top_k, min_score, document_filter))}

\* lines 161-166: the keys of docs_chunks, in the order of their insertion
DocsInOrder(results) ==
  LET IsFirst(k) == \A j \in 1..(k - 1) :
                      results[j].document_name # results[k].document_name
      firsts == {k \in 1..Len(results) : IsFirst(k)}
  IN  [i \in 1..Cardinality(firsts) |->
         results[CHOOSE k \in firsts :
                   Cardinality({j \in firsts : j < k}) = i - 1].document_name]

\* docs_chunks[doc_name]
chunk_indices(results, doc_name) ==
  {results[k].chunk_index :
     k \in {j \in 1..Len(results) : results[j].document_name = doc_name}}

\* lines 172-178: additional_indices
additional_indices(results, doc_name, context_chunks) ==
  {new_idx \in {idx + offset : idx \in chunk_indices(results, doc_name),
                               offset \in (0 - context_chunks)..context_chunks} :
     new_idx >= 0 /\ new_idx \notin chunk_indices(results, doc_name)}

\* the lists of the elements of S, in any order
RECURSIVE AnyOrder(_)
AnyOrder(S) ==
  IF S = {} THEN {<<>>}
  ELSE UNION {{<<r>> \o rest : rest \in AnyOrder(S \ {r})} : r \in S}

\* lines 182-191: what the service may return to the search for the
\* additional chunks: the records of that document_name with one of the
\* indices, in an order of its own
AdditionalResults(st, doc_name, indices) ==
  {SubSeq(l, 1, MinOf(Len(l), SERVICE_DEFAULT_TOP)) :
     l \in AnyOrder({r \in st : /\ r.document_name = doc_name
                               /\ r.chunk_index \in indices})}

\* the key of the sort: (x.document_name, x.chunk_index)
KeyLess(x, y) ==
  \/ StrLess(x.document_name, y.document_name)
  \/ x.document_name = y.document_name /\ x.chunk_index < y.chunk_index

\* the list left as it is
NotSorted(results) == results

\* lines 206-208: list.sort(key=...), which is stable
SortByDocumentAndIndex(results) ==
  LET Before(h, j) == \/ KeyLess(results[h], results[j])
                      \/ ~KeyLess(results[j], results[h]) /\ h < j
  IN  [k \in 1..Len(results) |->
         results[CHOOSE j \in 1..Len(results) :
                   Cardinality({h \in 1..Len(results) : Before(h, j)}) = k - 1]]

\* the context chunks alone
WithoutPrimary(results, additional) == additional

\* lines 169, 193-203: expanded_results = list(results), then the appends
Expanded(results, additional) == results \o additional

\* lines 171-208: the loop over docs_chunks from the document Head(names)
\* on, then the sort
RECURSIVE ExpandDocs(_, _, _, _, _)
ExpandDocs(st, results, names, context_chunks, additional) ==
  IF names = <<>>
    THEN {Returns(SortByDocumentAndIndex(Expanded(results, additional)))}
    ELSE LET indices == additional_indices(results, Head(names), context_chunks)
         IN  IF indices = {}
               THEN ExpandDocs(st, results, Tail(names), context_chunks, additional)
               ELSE {Raises("store")}
                      \cup UNION {
                        ExpandDocs(st, results, Tail(names), context_chunks,
                                   additional \o
                                     [k \in 1..Len(l) |->
                                        RetrievalResult(l[k], CONTEXT_SCORE)]) :
                        l \in AdditionalResults(st, Head(names), indices)}

\* lines 134-210: what search_with_context may do, primary being what its
\* call of search does
ContextOutcomes(st, primary, context_chunks) ==
  IF primary.raised THEN {primary}
  ELSE IF primary.results = <<>> \/ context_chunks = 0 THEN {primary}
  ELSE ExpandDocs(st, primary.results, DocsInOrder(primary.results),
                  context_chunks, <<>>)

-----------------------------------------------------------------------------
(* RAGMCPServer._search_policies and MCPToolResult                         *)

\* round(result.score, 3); a score is a whole number of tenths
Round3(score) == score

\* lines 136-143: formatted_results
formatted_results(results) ==
  [k \in 1..Len(results) |->
     [document |-> results[k].document_name, content |-> results[k].content,
      relevance_score |-> Round3(results[k].score),
      source_url |-> results[k].source_url]]

\* PolicyRetriever.format_context(results) for a list that is not empty: the
\* parts joined into the context, then the sources
format_context(results) ==
  LET Header(k) == IF k = 1 \/ results[k].document_name # results[k - 1].document_name
                     THEN <<[header |-> results[k].document_name]>> ELSE <<>>
      Parts[k \in 0..Len(results)] ==
        IF k = 0 THEN <<>>
        ELSE Parts[k - 1] \o Header(k) \o <<[content |-> results[k].content]>>
      names == DocsInOrder(results)
      LastOf(name) == CHOOSE k \in 1..Len(results) :
                        /\ results[k].document_name = name
                        /\ \A j \in (k + 1)..Len(results) :
                             results[j].document_name # name
  IN  [parts |-> Parts[Len(results)],
       sources |-> [i \in 1..Len(names) |->
                      [name |-> names[i],
                       url |-> results[LastOf(names[i])].source_url]]]

\* MCPToolResult.success(data)
MCPToolResult_success(data) == [status |-> "success", data |-> data]

\* lines 126-134: the answer when the search returns no result
NotFound == MCPToolResult_success([found |-> FALSE, results |-> <<>>])

\* the failure answered as a search without result
error_as_not_found(e) == NotFound

\* MCPToolResult.error(str(e))
MCPToolResult_error(e) == [status |-> "error", error |-> e]

\* lines 119-159: the result of the tool, outcome being what its call of
\* search does
search_policies(outcome) ==
  IF outcome.raised THEN MCPToolResult_error(outcome.failed)
  ELSE IF outcome.results = <<>> THEN NotFound
  ELSE MCPToolResult_success(
         [found |-> TRUE,
          result_count |-> Len(formatted_results(outcome.results)),
          context |-> format_context(outcome.results),
          results |-> formatted_results(outcome.results)])

-----------------------------------------------------------------------------
(* The calls of the retriever and of the search_policies tool              *)

Search(top_k, min_score, document_filter) ==
  /\ sr_call = NoCall
  /\ \E o \in SearchOutcomes(store, sr_hits, top_k, min_score, document_filter) :
       sr_call' = [op |-> "search", top_k |-> top_k, min_score |-> min_score,
                   document_filter |-> document_filter,
                   raised |-> o.raised, failed |-> o.failed,
                   results |-> o.results]
  /\ UNCHANGED <<sr_hits, ix_vars>>

SearchWithContext(top_k, context_chunks) ==
  /\ sr_call = NoCall
  /\ \E primary \in SearchOutcomes(store, sr_hits, top_k, DEFAULT_MIN_SCORE, <<>>) :
       \E o \in ContextOutcomes(store, primary, context_chunks) :
         sr_call' = [op |-> "search_with_context", top_k |-> top_k,
                     context_chunks |-> context_chunks,
                     raised |-> o.raised, failed |-> o.failed,
                     results |-> o.results]
  /\ UNCHANGED <<sr_hits, ix_vars>>

SearchPolicies(top_k, document_filter) ==
  /\ sr_call = NoCall
  /\ \E o \in SearchOutcomes(store, sr_hits, top_k, DEFAULT_MIN_SCORE,
                             document_filter) :
       sr_call' = [op |-> "search_policies", top_k |-> top_k,
                   document_filter |-> document_filter,
                   raised |-> FALSE, failed |-> o.failed,
                   hits |-> Len(o.results),
                   result |-> search_policies(o)]
  /\ UNCHANGED <<sr_hits, ix_vars>>

\* the caller has the outcome of the call
SearchReturn ==
  /\ sr_call # NoCall
  /\ sr_call' = NoCall
  /\ UNCHANGED <<sr_hits, ix_vars>>

-----------------------------------------------------------------------------
(* The lazily constructed clients: EmbeddingsGenerator.client              *)
(* (embeddings.py:49-56) and SharePointClient._get_http_client             *)
(* (client.py:97-109).                                                     *)
(*                                                                         *)
(* The callers are coroutines of one asyncio event loop (app.py runs       *)
(* aiohttp's loop, scripts/index_documents.py runs asyncio.run): a         *)
(* coroutine runs alone from one suspension point to the next.  The client *)
(* property is a plain method.  _get_http_client awaits                    *)
(* _get_access_token between its test and its assignment, but              *)
(* _get_access_token (client.py:83-95) awaits nothing, so that await never *)
(* suspends.  A process holds one EmbeddingsGenerator (the retriever's in  *)
(* app.py, the indexer's in the script) and one SharePointClient.          *)

\* the test that finds the attribute unset at every use
IsUnset_Always(client) == TRUE

\* embeddings.py:52: self._client is None
IsUnset(client) == client = 0

\* client.py:99: self._http_client is None or self._http_client.is_closed
NeedsHttpClient(client) == client = <<>> \/ client[1].is_closed

\* a coroutine that is not in a call
Ready == [pc |-> "ready", client |-> 0]

\* embeddings.py:49-56, 134: a coroutine in generate_embedding evaluates
\* self.client and awaits embeddings.create on the instance it was given
UseEmbeddingClient(t) ==
  /\ cl_tasks[t].pc = "ready"
  /\ IF IsUnset(cl_openai)
       THEN /\ cl_openai' = cl_made.openai + 1
            /\ cl_made' = [cl_made EXCEPT !.openai = @ + 1]
       ELSE UNCHANGED <<cl_openai, cl_made>>
  /\ cl_tasks' = [cl_tasks EXCEPT ![t] = [pc |-> "embedding", client |-> cl_openai']]
  /\ UNCHANGED <<cl_http, cl_closes>>

\* client.py:97-109, 134: a coroutine in list_documents or download_document
\* awaits _get_http_client() and then a request on the instance it was
\* given; _get_access_token may raise, and then no client is constructed
GetHttpClient(t) ==
  /\ cl_tasks[t].pc = "ready"
  /\ IF NeedsHttpClient(cl_http)
       THEN \E token_ok \in BOOLEAN :
              IF token_ok
                THEN /\ cl_http' = <<[id |-> cl_made.http + 1, is_closed |-> FALSE]>>
                     /\ cl_made' = [cl_made EXCEPT !.http = @ + 1]
                     /\ cl_tasks' = [cl_tasks EXCEPT ![t] =
                                       [pc |-> "graph", client |-> cl_made.http + 1]]
                ELSE /\ cl_tasks' = [cl_tasks EXCEPT ![t] =
                                       [pc |-> "raised", client |-> 0]]
                     /\ UNCHANGED <<cl_http, cl_made>>
       ELSE /\ cl_tasks' = [cl_tasks EXCEPT ![t] =
                              [pc |-> "graph", client |-> cl_http[1].id]]
            /\ UNCHANGED <<cl_http, cl_made>>
  /\ UNCHANGED <<cl_openai, cl_closes>>

\* the request a coroutine awaits completes, or the exception it raised has
\* reached its caller
CallEnds(t) ==
  /\ cl_tasks[t].pc \in {"embedding", "graph", "raised"}
  /\ cl_tasks' = [cl_tasks EXCEPT ![t] = Ready]
  /\ UNCHANGED <<cl_openai, cl_http, cl_made, cl_closes>>

\* client.py:111-114: close() closes the http client if there is an open one
\* (the script calls it when indexing is over)
CloseHttpClient ==
  /\ cl_closes < MaxCloses
  /\ cl_http # <<>>
  /\ ~cl_http[1].is_closed
  /\ cl_http' = <<[cl_http[1] EXCEPT !.is_closed = TRUE]>>
  /\ cl_closes' = cl_closes + 1
  /\ UNCHANGED <<cl_openai, cl_made, cl_tasks>>

-----------------------------------------------------------------------------
(* The values of a component's variables while no call of it is in progress *)

ChunkIdle ==
  /\ ck_input = <<>>
  /\ ck_text = <<>>
  /\ ck_start = 0
  /\ ck_chunks = <<>>
  /\ ck_pc = "idle"
  /\ ck_size = CHUNK_SIZE
  /\ ck_overlap = CHUNK_OVERLAP
  /\ ck_spans = <<>>

EmbedIdle ==
  /\ em_texts = <<>>
  /\ em_batch_size = DEFAULT_BATCH_SIZE
  /\ em_attempt = 1
  /\ em_processed = <<>>
  /\ em_i = 0
  /\ em_embeddings = <<>>
  /\ em_response = <<>>
  /\ em_result = <<>>
  /\ em_pc = "idle"
  /\ em_requests = 0

GenIdle ==
  /\ ge_model = MODEL_SMALL
  /\ ge_text = <<>>
  /\ ge_sent = <<>>
  /\ ge_attempt = 1
  /\ ge_requests = <<>>
  /\ ge_result = <<>>
  /\ ge_pc = "idle"

IndexIdle ==
  /\ store = {}
  /\ ix_last = NoCall

SearchIdle ==
  /\ sr_hits = <<>>
  /\ sr_call = NoCall

ClientsIdle ==
  /\ cl_openai = 0
  /\ cl_http = <<>>
  /\ cl_made = [openai |-> 0, http |-> 0]
  /\ cl_closes = 0
  /\ cl_tasks = <<>>

TruncateIdle ==
  /\ tk_text = <<>>
  /\ tk_max = <<>>
  /\ tk_result = <<>>
  /\ tk_pc = "idle"

ChunkIdIdle ==
  /\ id_a = <<>>
  /\ id_b = <<>>
  /\ id_strings = <<>>
  /\ id_pc = "idle"

-----------------------------------------------------------------------------
(* The chunker on its own: one call of chunk_text on a sample text         *)

MaxShortLen == 3
Alphabet == {"a", ".", " ", "\n"}

ShortTexts == SeqsUpTo(Alphabet, MaxShortLen)

\* Eight sentences of CHUNK_OVERLAP - 1 characters each, the space included:
\* a sentence ends CHUNK_OVERLAP characters after the space that ends the
\* sentence before the one before it.
LongSentences ==
  Rep(Rep(<<"a">>, CHUNK_OVERLAP - 3) \o <<".", " ">>, 8)

\* Texts around the one-chunk limit: letters only, letters separated by
\* double spaces (the clean-up shortens them), "A. " repeated, blanks only,
\* sentences of CHUNK_OVERLAP - 1 characters, a sentence that ends at and
\* one that ends just past CHUNK_SIZE + 100.
BoundaryTexts ==
  {Rep(<<"a">>, n) : n \in {CHUNK_SIZE - 1, CHUNK_SIZE, CHUNK_SIZE + 1}}
  \cup {Rep(<<"a", " ", " ">>, n) :
          n \in {CHUNK_SIZE \div 2, (CHUNK_SIZE \div 2) + 1}}
  \cup {Rep(<<"A", ".", " ">>, n) :
          n \in {CHUNK_SIZE \div 3, (CHUNK_SIZE \div 3) + 1, CHUNK_SIZE \div 2}}
  \cup {Rep(<<" ">>, CHUNK_SIZE + CHUNK_OVERLAP)}
  \cup {LongSentences}
  \cup {Rep(<<"a">>, n) \o <<".", " ">> \o Rep(<<"a">>, CHUNK_OVERLAP) :
          n \in {CHUNK_SIZE + 98, CHUNK_SIZE + 99}}

\* Texts with two kinds of sentence ending in the search window of the first
\* pass: first <<first, " ">> at position CHUNK_SIZE - 52, then
\* <<second, " ">> at position CHUNK_SIZE + 48.
TwoEndings(first, second) ==
  Rep(<<"a">>, CHUNK_SIZE - 52) \o <<first, " ">>
    \o Rep(<<"a">>, 98) \o <<second, " ">> \o Rep(<<"a">>, CHUNK_OVERLAP)

MixedEndingTexts ==
  {TwoEndings(e[1], e[2]) : e \in {".", "?", "!"} \X {".", "?", "!", "a"}}

\* Texts of more than two chunks: broken at sentence ends, at word
\* boundaries, and cut for want of either
ThreeChunkTexts ==
  {Rep(<<"A", ".", " ">>, 700), Rep(<<"a", "a", "a", "a", " ">>, 420),
   Rep(<<"a">>, 2 * CHUNK_SIZE + 1)}

ChunkInputs ==
  ShortTexts \cup BoundaryTexts \cup MixedEndingTexts \cup ThreeChunkTexts

InitChunk ==
  /\ ck_input \in ChunkInputs
  /\ ck_text = <<>>
  /\ ck_start = 0
  /\ ck_chunks = <<>>
  /\ ck_pc = "call"
  /\ ck_size = CHUNK_SIZE
  /\ ck_overlap = CHUNK_OVERLAP
  /\ ck_spans = <<>>
  /\ EmbedIdle
  /\ GenIdle
  /\ IndexIdle
  /\ SearchIdle
  /\ ClientsIdle
  /\ TruncateIdle
  /\ ChunkIdIdle

NextChunk ==
  \/ ChunkCall /\ UNCHANGED ck_others
  \/ ChunkLoop /\ UNCHANGED ck_others

SpecChunk == InitChunk /\ [][NextChunk]_vars

-----------------------------------------------------------------------------
(* C10                                                                     *)

NotSpace(c) == ~IsSpace(c)
\* the non-whitespace characters of t, in order
NonSpace(t) == SelectSeq(t, NotSpace)
\* the positions of the non-whitespace characters of t, in order
NonSpaceAt(t) ==
  LET Marked(p) == NotSpace(p[2])
      at == SelectSeq([i \in 1..Len(t) |-> <<i, t[i]>>], Marked)
  IN  [k \in 1..Len(at) |-> at[k][1]]

\* n is the whitespace-normalized form of raw: the same non-whitespace
\* characters in the same order, one space exactly where raw has whitespace
\* between two of them, and nothing else.
IsNormalizedFormOf(n, raw) ==
  LET rawAt == NonSpaceAt(raw)
      nAt   == NonSpaceAt(n)
  IN  /\ NonSpace(n) = NonSpace(raw)
      /\ \A i \in 1..Len(n) : IsSpace(n[i]) => n[i] = " "
      /\ Len(nAt) > 0 => nAt[1] = 1 /\ nAt[Len(nAt)] = Len(n)
      /\ Len(nAt) = 0 => n = <<>>
      /\ \A k \in 1..(Len(nAt) - 1) :
           nAt[k + 1] - nAt[k] = (IF rawAt[k + 1] - rawAt[k] > 1 THEN 2 ELSE 1)

\* the length of the whitespace-normalized form of raw
NormalizedLen(raw) ==
  LET rawAt == NonSpaceAt(raw)
  IN  Len(rawAt)
        + Cardinality({k \in 1..(Len(rawAt) - 1) : rawAt[k + 1] - rawAt[k] > 1})

\* C10: when the whitespace-normalized form of the text is at most CHUNK_SIZE
\* characters long, chunk_text returns the empty list if that form is empty
\* and otherwise exactly one chunk, which is that form.
C10_ShortTextOneChunk ==
  (ck_pc = "done" /\ NormalizedLen(ck_input) <= CHUNK_SIZE) =>
     IF NormalizedLen(ck_input) = 0
       THEN ck_chunks = <<>>
       ELSE /\ Len(ck_chunks) = 1
            /\ IsNormalizedFormOf(ck_chunks[1], ck_input)

\* a call returned one chunk of exactly CHUNK_SIZE characters for a text that
\* the clean-up had to shorten
C10_Witness ==
  /\ ck_pc = "done"
  /\ Len(ck_input) > CHUNK_SIZE
  /\ NormalizedLen(ck_input) <= CHUNK_SIZE
  /\ Len(ck_chunks) = 1
  /\ ck_chunks[1] # ck_input

-----------------------------------------------------------------------------
(* C11, C12, C13                                                           *)

\* C11: every chunk chunk_text has appended, by a sentence break, a word
\* boundary, a hard cut or as the last chunk, is at most CHUNK_SIZE + 100
\* characters long (1100 with CHUNK_SIZE 1000 and CHUNK_OVERLAP 200).
C11_ChunkLengthBound ==
  \A k \in 1..Len(ck_chunks) : Len(ck_chunks[k]) <= CHUNK_SIZE + 100

\* a call returned a chunk longer than CHUNK_SIZE (a sentence break found in
\* the slack after start + CHUNK_SIZE) and a last chunk
C11_Witness ==
  /\ ck_pc = "done"
  /\ Len(ck_chunks) >= 2
  /\ \E k \in 1..Len(ck_chunks) : Len(ck_chunks[k]) > CHUNK_SIZE

\* C12 as stated: for consecutive returned chunks i and i+1, the content of
\* chunk i+1, as returned after strip(), begins in the cleaned text at or
\* before the end of the content of chunk i minus CHUNK_OVERLAP.
C12_ContentOverlap ==
  \A i \in 1..(Len(ck_spans) - 1) :
    ck_spans[i + 1].begin <= ck_spans[i].end - CHUNK_OVERLAP

\* C12 amended: the slice of chunk i+1 starts exactly CHUNK_OVERLAP characters
\* before the place where the slice of chunk i ends; strip() removes at most
\* one space at either end, so the content of chunk i+1 begins at or before
\* the end of the content of chunk i minus (CHUNK_OVERLAP - 2).
C12_WindowOverlap ==
  \A i \in 1..(Len(ck_spans) - 1) :
    /\ ck_spans[i + 1].start = ck_spans[i].best_break - CHUNK_OVERLAP
    /\ ck_spans[i + 1].begin <= ck_spans[i].end - (CHUNK_OVERLAP - 2)

\* a call returned two consecutive chunks where strip() removed the space
\* that ended the first slice and the space that began the second one
C12_Witness ==
  /\ ck_pc = "done"
  /\ \E i \in 1..(Len(ck_spans) - 1) :
       /\ ck_spans[i].end = ck_spans[i].best_break - 1
       /\ ck_spans[i + 1].begin = ck_spans[i + 1].start + 1
       /\ ck_spans[i + 1].begin = ck_spans[i].end - (CHUNK_OVERLAP - 2)

\* the text of the scenario: "A. " 500 times, 1500 characters
ScenarioText == Rep(<<"A", ".", " ">>, 500)

\* the first chunk ends at a sentence boundary: its last character is the
\* full stop of a ". " of the cleaned text
EndsAtSentenceBoundary ==
  /\ ck_chunks[1][Len(ck_chunks[1])] = "."
  /\ ck_text[ck_spans[1].end + 1] = " "

\* C13 as stated: chunking "A. " * 500 gives exactly 2 chunks, the first
\* ending at a sentence boundary, the second beginning at or before position
\* 800 of the cleaned text.
C13_ScenarioAt800 ==
  (ck_pc = "done" /\ ck_input = ScenarioText) =>
     /\ Len(ck_chunks) = 2
     /\ EndsAtSentenceBoundary
     /\ ck_spans[2].begin <= 800

\* C13 amended: chunking "A. " * 500 gives exactly 2 chunks, the first
\* ending at the sentence boundary at position 1097 (its slice ends at 1098,
\* the last sentence end within CHUNK_SIZE + 100), the second beginning at
\* position 898, CHUNK_OVERLAP before the end of the first slice.
C13_ScenarioAt898 ==
  (ck_pc = "done" /\ ck_input = ScenarioText) =>
     /\ Len(ck_chunks) = 2
     /\ EndsAtSentenceBoundary
     /\ ck_spans[1].end = 1097
     /\ ck_spans[2].begin = 898

\* the call on the scenario's text has returned
C13_Witness ==
  /\ ck_pc = "done"
  /\ ck_input = ScenarioText
  /\ Len(ck_chunks) = 2
  /\ Len(ck_chunks[2]) = 1499 - 898

-----------------------------------------------------------------------------
(* The chunker of an indexer whose CHUNK_SIZE and CHUNK_OVERLAP are set to  *)
(* other values than the class's (they are read through self at every use) *)

MaxSize == 4
MaxOverlap == 5
MaxConfigLen == 6

ConfigSizes == 3..MaxSize
ConfigOverlaps == 0..MaxOverlap
ConfigTexts == SeqsUpTo({"a", ".", " "}, MaxConfigLen)

InitChunkConfig ==
  /\ ck_input \in ConfigTexts
  /\ ck_size \in ConfigSizes
  /\ ck_overlap \in ConfigOverlaps
  /\ ck_text = <<>>
  /\ ck_start = 0
  /\ ck_chunks = <<>>
  /\ ck_pc = "call"
  /\ ck_spans = <<>>
  /\ EmbedIdle
  /\ GenIdle
  /\ IndexIdle
  /\ SearchIdle
  /\ ClientsIdle
  /\ TruncateIdle
  /\ ChunkIdIdle

SpecChunkConfig == InitChunkConfig /\ [][NextChunk]_vars

\* C14: with CHUNK_OVERLAP >= CHUNK_SIZE no chunking takes place: the call
\* neither enters the loop nor returns chunks (it is rejected instead).
C14_BadConfigRejected ==
  (ck_overlap >= ck_size) =>
     /\ ck_pc \notin {"loop", "done"}
     /\ ck_chunks = <<>>

-----------------------------------------------------------------------------
(* The embeddings generator on its own: one call of                        *)
(* generate_embeddings_batch on a sample list of texts                     *)

MaxTexts == 3
MaxBatch == 3

\* a text of more tokens than the limit
LongText == Rep(<<"a">>, TOKEN_LIMIT + 9)

\* empty, blank and ordinary texts
EmbedTexts == {<<>>, <<" ", "\n">>, <<"a">>, <<"b">>}

\* the sample lists: every list of up to MaxTexts of these texts, and lists
\* that hold the long text at the first, the last and a middle position
EmbedInputs ==
  SeqsUpTo(EmbedTexts, MaxTexts)
    \cup {<<LongText>>, <<LongText, <<"a">>>>, <<<<"b">>, LongText>>,
          <<<<"a">>, LongText, <<>>>>}

InitEmbed ==
  /\ em_texts \in EmbedInputs
  /\ em_batch_size \in 1..MaxBatch
  /\ em_attempt = 1
  /\ em_processed = <<>>
  /\ em_i = 0
  /\ em_embeddings = <<>>
  /\ em_response = <<>>
  /\ em_result = <<>>
  /\ em_pc = "call"
  /\ em_requests = 0
  /\ GenIdle
  /\ ChunkIdle
  /\ IndexIdle
  /\ SearchIdle
  /\ ClientsIdle
  /\ TruncateIdle
  /\ ChunkIdIdle

NextEmbed ==
  \/ EmbedBegin /\ UNCHANGED em_others
  \/ EmbedBatchOk /\ UNCHANGED em_others
  \/ EmbedBatchFail /\ UNCHANGED em_others
  \/ EmbedReturn /\ UNCHANGED em_others

SpecEmbed == InitEmbed /\ [][NextEmbed]_vars

-----------------------------------------------------------------------------
(* C3                                                                      *)

\* the text the service receives for an input text: the text cut to the token
\* limit, or one space when that is empty or blank
SentFor(text) ==
  LET cut == truncate_to_token_limit(text, <<TOKEN_LIMIT>>)
  IN  IF \A i \in 1..Len(cut) : IsSpace(cut[i]) THEN <<" ">> ELSE cut

\* C3: a call of generate_embeddings_batch that returns, returns one vector
\* per input text, and the vector at position i is the one the service
\* computed for input i (cut to the token limit, or the one-space placeholder
\* for an empty or blank input), whatever order the service listed each
\* batch's items in.
C3_BatchPositional ==
  em_pc = "done" =>
    /\ Len(em_result) = Len(em_texts)
    /\ \A i \in 1..Len(em_texts) :
         em_result[i] = ServiceVector(SentFor(em_texts[i]))

\* a call returned after the service listed a batch of two or more distinct
\* texts out of order, one of them cut to the token limit
C3_Witness ==
  /\ em_pc = "done"
  /\ Len(em_response) >= 2
  /\ em_response[1] # 0
  /\ \E i, j \in 1..Len(em_texts) :
       /\ em_result[i] # em_result[j]
       /\ count_tokens(em_texts[i]) > TOKEN_LIMIT

-----------------------------------------------------------------------------
(* The embeddings generator on its own: one call of generate_embedding     *)

MaxGenLen == 2

\* a text of blanks only that is longer than the token limit
LongBlank == Rep(<<" ">>, TOKEN_LIMIT + 9)

GenTexts == SeqsUpTo({"a", " ", "\n"}, MaxGenLen) \cup {LongText, LongBlank}
GenModels == {MODEL_SMALL, MODEL_LARGE, MODEL_ADA, MODEL_OTHER}

InitGen ==
  /\ ge_model \in GenModels
  /\ ge_text \in GenTexts
  /\ ge_sent = <<>>
  /\ ge_attempt = 1
  /\ ge_requests = <<>>
  /\ ge_result = <<>>
  /\ ge_pc = "call"
  /\ ChunkIdle
  /\ EmbedIdle
  /\ IndexIdle
  /\ SearchIdle
  /\ ClientsIdle
  /\ TruncateIdle
  /\ ChunkIdIdle

NextGen ==
  \/ GenBegin /\ UNCHANGED ge_others
  \/ GenRequestOk /\ UNCHANGED ge_others
  \/ \E kind \in FailureKinds : GenRequestFail(kind) /\ UNCHANGED ge_others

SpecGen == InitGen /\ [][NextGen]_vars

-----------------------------------------------------------------------------
(* C15, C16, C17                                                           *)

\* every request but the last one failed
FailedBeforeLast ==
  \A k \in 1..(Len(ge_requests) - 1) : ge_requests[k] \in FailureKinds

\* no request failed otherwise than by a transient failure
OnlyTransientFailures ==
  \A k \in 1..Len(ge_requests) : ge_requests[k] \in {"ok", "transient"}

\* C15: while the service fails by transient failures only, one call of
\* generate_embedding makes at most 3 requests; when it returns after a
\* request, that request is its first one to succeed and the value is the
\* vector that request gave for the text cut to the token limit; when 3
\* requests have failed the call has raised, and it raises only then.
C15_RetryBudget ==
  OnlyTransientFailures =>
    /\ Len(ge_requests) <= 3
    /\ FailedBeforeLast
    /\ (ge_pc = "done" /\ ge_requests # <<>>) =>
         /\ ge_requests[Len(ge_requests)] = "ok"
         /\ ge_result = ServiceVector(truncate_to_token_limit(ge_text, <<TOKEN_LIMIT>>))
    /\ (ge_pc = "raised") <=>
         (Len(ge_requests) = 3 /\ \A k \in 1..3 : ge_requests[k] = "transient")

\* a call returned the vector of its third request after two transient
\* failures
C15_Witness ==
  /\ ge_pc = "done"
  /\ ge_requests = <<"transient", "transient", "ok">>

\* a call raised after three transient failures
C15_WitnessRaised ==
  /\ ge_pc = "raised"
  /\ ge_requests = <<"transient", "transient", "transient">>

\* C16: a request that fails with an authentication or a malformed-request
\* error is the only request of its call, and the call has raised.
C16_NoRetryOfFatal ==
  \A k \in 1..Len(ge_requests) :
    ge_requests[k] \in {"auth", "malformed"} =>
      /\ Len(ge_requests) = 1
      /\ ge_pc = "raised"

\* C17: a call of generate_embedding on an empty or whitespace-only text
\* makes no request and, when it has returned, its value is a list of as many
\* zeros as MODEL_DIMENSIONS gives for the model (1536 for a model not
\* listed).
C17_BlankGivesZeros ==
  (\A i \in 1..Len(ge_text) : IsSpace(ge_text[i])) =>
    /\ ge_requests = <<>>
    /\ ge_pc \in {"call", "done", "idle"}
    /\ ge_pc = "done" =>
         /\ Len(ge_result) = (CASE ge_model = MODEL_LARGE -> 3072
                                [] OTHER -> 1536)
         /\ \A i \in 1..Len(ge_result) : ge_result[i] = 0

\* a call on a whitespace-only text returned, for the model of 3072
\* dimensions
C17_Witness ==
  /\ ge_pc = "done"
  /\ ge_text # <<>>
  /\ \A i \in 1..Len(ge_text) : IsSpace(ge_text[i])
  /\ ge_model = MODEL_LARGE
  /\ Len(ge_result) = 3072

-----------------------------------------------------------------------------
(* The indexer and the index: calls of index_document,                     *)
(* index_all_documents, delete_document_chunks and get_document_chunks, in *)
(* any order, on documents of the SharePoint folder                        *)

MaxDocs == 2

\* what list_documents may return: the items of one folder, whose ids and
\* names differ from one another
Listings ==
  {l \in SeqsUpTo(Listed, MaxDocs) :
     \A a, b \in 1..Len(l) :
       a # b => l[a].id # l[b].id /\ l[a].name # l[b].name}

InitIndex ==
  /\ IndexIdle
  /\ ChunkIdle
  /\ EmbedIdle
  /\ GenIdle
  /\ SearchIdle
  /\ ClientsIdle
  /\ TruncateIdle
  /\ ChunkIdIdle

NextIndex ==
  \/ (\E document \in Revisions : IndexDocument(document)) /\ UNCHANGED ix_others
  \/ (\E documents \in Listings : IndexAllDocuments(documents))
       /\ UNCHANGED ix_others
  \/ IndexAllDocumentsFails /\ UNCHANGED ix_others
  \/ (\E document_id \in DocumentIds : DeleteDocumentChunks(document_id))
       /\ UNCHANGED ix_others
  \/ (\E document_name \in DocumentNames : GetDocumentChunks(document_name))
       /\ UNCHANGED ix_others

SpecIndex == InitIndex /\ [][NextIndex]_vars

-----------------------------------------------------------------------------
\* C1: when index_document runs a second time on a document whose id and
\* extracted text are those of the first run, and the first run stored every
\* chunk, the second run produces the set of chunk ids the first produced
\* and leaves the number of records of the index as the first run left it.
C1_ReindexIdempotent ==
  [][(/\ ix_last'.op = "index_document"
      /\ ix_last'.rerun
      /\ ~ix_last'.raised)
       => (/\ ix_last'.chunk_ids = ix_last.chunk_ids
           /\ Cardinality(store') = Cardinality(store))]_vars

\* a second run on a two-chunk document has returned, both chunks uploaded
C1_Witness ==
  /\ ix_last.op = "index_document"
  /\ ix_last.rerun
  /\ ~ix_last.raised
  /\ Cardinality(ix_last.chunk_ids) = 2
  /\ ix_last.value = 2
  /\ Cardinality(store) >= 2

-----------------------------------------------------------------------------
\* C2: whenever index_all_documents has listed the folder, whichever of the
\* supported documents fail, the call returns; index_document is called on
\* every supported document in turn, also after a failing one; a failing
\* document has the entry 0, another one its count; and the map has exactly
\* one entry per supported document.
C2_FailureIsolation ==
  (ix_last.op = "index_all_documents" /\ ix_last.listed) =>
    LET docs == supported_docs(ix_last.documents)
        results == ix_last.results
        calls == ix_last.calls
    IN  /\ ~ix_last.raised
        /\ Len(calls) = Len(docs)
        /\ \A k \in 1..Len(docs) :
             /\ calls[k].document_id = docs[k].id
             /\ results[docs[k].name] = IF calls[k].raised THEN 0 ELSE calls[k].value
        /\ DOMAIN results = {docs[k].name : k \in 1..Len(docs)}
        /\ Cardinality(DOMAIN results) = Len(docs)

\* the first of two supported documents failed and the second was indexed
C2_Witness ==
  /\ ix_last.op = "index_all_documents"
  /\ ix_last.listed
  /\ Len(ix_last.calls) = 2
  /\ ix_last.calls[1].raised
  /\ ~ix_last.calls[2].raised
  /\ ix_last.calls[2].value >= 1
  /\ Cardinality(DOMAIN ix_last.results) = 2

-----------------------------------------------------------------------------
\* C8: when delete_document_chunks(document_id) has returned for a document
\* with n records in the index, it has returned n, no record of the document
\* is left, and get_document_chunks called next with the name of that
\* document returns the empty list.
C8_DeleteThenRead ==
  [][(/\ ix_last.op = "delete_document_chunks"
      /\ ~ix_last.raised
      /\ ix_last'.op = "get_document_chunks"
      /\ ~ix_last'.raised
      /\ ix_last'.document_name \in ix_last.names_before)
       => (/\ ix_last.value = ix_last.indexed_before
           /\ ByDocumentId(store, ix_last.document_id) = {}
           /\ ix_last'.results = <<>>)]_vars

-----------------------------------------------------------------------------
(* One document over time: index_document on the versions of d1 and        *)
(* delete_document_chunks, in any order                                    *)

NextReindex ==
  \/ (\E document \in Versions : IndexDocument(document)) /\ UNCHANGED ix_others
  \/ (\E document_id \in {d.id : d \in Versions} :
        DeleteDocumentChunks(document_id)) /\ UNCHANGED ix_others

SpecReindex == InitIndex /\ [][NextReindex]_vars

\* the last call was index_document, it returned and stored every chunk of
\* the document
IndexedInFull ==
  /\ ix_last.op = "index_document"
  /\ ~ix_last.raised
  /\ ix_last.value = Len(ChunksOf(ix_last.document.text))

\* the records of the index that belong to the document, as pairs of
\* chunk_index and content
RecordsOf(document_id) ==
  {<<r.chunk_index, r.content>> : r \in ByDocumentId(store, document_id)}

\* the chunks of a text, as pairs of chunk_index and content
CurrentChunks(text) ==
  {<<k - 1, ChunksOf(text)[k]>> : k \in 1..Len(ChunksOf(text))}

\* C18: the index holds at most one record for each pair of document_id and
\* chunk_index, and once index_document has stored every chunk of a
\* document, a record of that document that is not a chunk of this version
\* has a chunk_index of at least the number of chunks of this version.
C18_OneRecordPerIndex ==
  /\ \A r1, r2 \in store :
       (r1.document_id = r2.document_id /\ r1.chunk_index = r2.chunk_index)
         => r1 = r2
  /\ IndexedInFull =>
       \A p \in RecordsOf(ix_last.document.id) :
         p \notin CurrentChunks(ix_last.document.text)
           => p[1] >= Len(ChunksOf(ix_last.document.text))

\* C19: when delete_document_chunks(document_id) has returned and the call
\* after it is index_document of a document with that id, which returns
\* having stored every chunk, the records of the index with that document_id
\* are exactly the chunks of the version indexed, one per chunk_index.
C19_NoOrphansAfterDelete ==
  (IndexedInFull /\ ix_last.deleted_before >= 0) =>
     /\ RecordsOf(ix_last.document.id) = CurrentChunks(ix_last.document.text)
     /\ Cardinality(ByDocumentId(store, ix_last.document.id))
          = Len(ChunksOf(ix_last.document.text))

\* the two records of an earlier version were deleted and a version of one
\* chunk was indexed in full
C19_Witness ==
  /\ IndexedInFull
  /\ ix_last.deleted_before = 2
  /\ ix_last.value = 1
  /\ Cardinality(ByDocumentId(store, ix_last.document.id)) = 1

-----------------------------------------------------------------------------
(* The retriever: one call of search, search_with_context or the           *)
(* search_policies tool at a time, on an index that indexing has filled    *)

MaxTopK == 2
MaxContext == 2

\* the scores the service gives: under, at and over the default threshold
Scores == {5, 7, 9}

\* the thresholds search is called with
MinScores == {5, 7, 9}

\* an extracted text of three chunks
TEXT_LONG == Rep(<<"A", "b", ".", " ">>, 480)

\* the index st after index_document(document) has stored every chunk
Indexed(st, document) ==
  (CHOOSE o \in IndexDocumentOutcomes(st, document) :
     ~o.raised /\ o.value = Len(ChunksOf(document.text))).store

\* the contents of the index: nothing, or the chunks of two documents, of
\* different names or of one name
IndexContents ==
  {{}}
    \cup {Indexed(Indexed({}, Document(<<"d", "1">>, <<"n", "1">>, TRUE, TEXT_LONG)),
                  Document(<<"d", "2">>, name, TRUE, TEXT_S)) :
            name \in {<<"n", "2">>, <<"n", "1">>}}

\* the rankings the service may give the records of st for a query: every
\* record once, by descending score
Rankings(st) ==
  {[k \in 1..Len(l) |-> [id |-> l[k].id, score |-> sc[k]]] :
     <<l, sc>> \in {p \in AnyOrder(st) \X [1..Cardinality(st) -> Scores] :
                     \A k \in 1..(Cardinality(st) - 1) : p[2][k] >= p[2][k + 1]}}

\* document_filter: None, the empty str, the name of a document
Filters == {<<>>, <<<<>>>>, <<<<"n", "1">>>>, <<<<"n", "2">>>>}

InitSearch ==
  /\ store \in IndexContents
  /\ ix_last = NoCall
  /\ sr_hits \in Rankings(store)
  /\ sr_call = NoCall
  /\ ChunkIdle
  /\ EmbedIdle
  /\ GenIdle
  /\ ClientsIdle
  /\ TruncateIdle
  /\ ChunkIdIdle

NextSearch ==
  \/ (\E top_k \in 1..MaxTopK, min_score \in MinScores, document_filter \in Filters :
        Search(top_k, min_score, document_filter)) /\ UNCHANGED <<ck_vars, em_vars, ge_vars, cl_vars, tk_vars, id_vars>>
  \/ (\E top_k \in 1..MaxTopK, context_chunks \in 0..MaxContext :
        SearchWithContext(top_k, context_chunks)) /\ UNCHANGED <<ck_vars, em_vars, ge_vars, cl_vars, tk_vars, id_vars>>
  \/ (\E top_k \in 1..MaxTopK, document_filter \in Filters :
        SearchPolicies(top_k, document_filter)) /\ UNCHANGED <<ck_vars, em_vars, ge_vars, cl_vars, tk_vars, id_vars>>
  \/ SearchReturn /\ UNCHANGED <<ck_vars, em_vars, ge_vars, cl_vars, tk_vars, id_vars>>

SpecSearch == InitSearch /\ [][NextSearch]_vars

-----------------------------------------------------------------------------
\* the candidates of the call of search that has just run
CallCandidates ==
  Candidates(store, sr_hits, sr_call.document_filter, sr_call.top_k * 2)

SearchDone == sr_call.op = "search" /\ ~sr_call.raised

\* C4: the list search returns is the first top_k of the candidates whose
\* score is at least min_score, in the order the service returned them: each
\* returned chunk has a score >= min_score, at most top_k chunks are returned,
\* and a candidate that qualifies is left out only when top_k qualifying
\* candidates come before it.
C4_SearchFiltersAndTruncates ==
  SearchDone =>
    LET Qualifies(c) == c.score >= sr_call.min_score
        qualifying == SelectSeq(CallCandidates, Qualifies)
        results == sr_call.results
    IN  /\ Len(CallCandidates) <= sr_call.top_k * 2
        /\ Len(results) = MinOf(sr_call.top_k, Len(qualifying))
        /\ \A k \in 1..Len(results) :
             /\ results[k].id = qualifying[k].record.id
             /\ results[k].score = qualifying[k].score
             /\ results[k].score >= sr_call.min_score

\* search has stopped at top_k results, one of them with the score
\* min_score, leaving out a candidate that qualifies, and a candidate of the
\* service was under the threshold
C4_Witness ==
  /\ SearchDone
  /\ Len(sr_call.results) = sr_call.top_k
  /\ \E a, b \in 1..Len(CallCandidates) :
       /\ a < b
       /\ CallCandidates[a].score >= sr_call.min_score
       /\ CallCandidates[a].record.id \notin
            {sr_call.results[k].id : k \in 1..Len(sr_call.results)}
       /\ CallCandidates[b].score < sr_call.min_score
  /\ \E k \in 1..Len(sr_call.results) : sr_call.results[k].score = sr_call.min_score

-----------------------------------------------------------------------------
\* C5: for the query, top_k, document_filter and index contents of a call of
\* search, a call with a lower threshold returns at least as many results
\* and a call with a higher threshold at most as many.
C5_MonotonicInMinScore ==
  SearchDone =>
    \A m \in MinScores :
      LET other == Len(search(store, sr_hits, sr_call.top_k, m,
                              sr_call.document_filter))
      IN  /\ m <= sr_call.min_score => Len(sr_call.results) <= other
          /\ m >= sr_call.min_score => Len(sr_call.results) >= other

\* a call whose threshold a lower one would have given more results
C5_Witness ==
  /\ SearchDone
  /\ \E m \in MinScores :
       /\ m < sr_call.min_score
       /\ Len(sr_call.results) >= 1
       /\ Len(sr_call.results) <
            Len(search(store, sr_hits, sr_call.top_k, m, sr_call.document_filter))

-----------------------------------------------------------------------------
ContextDone == sr_call.op = "search_with_context" /\ ~sr_call.raised

\* what search(query, top_k) returns on the index of the call that has run
PrimaryHits == search(store, sr_hits, sr_call.top_k, DEFAULT_MIN_SCORE, <<>>)

\* C6: the list search_with_context returns holds every chunk that
\* search(query, top_k) returns on the same index, with the score search
\* gives it.
C6_ContextKeepsPrimaryHits ==
  ContextDone =>
    \A k \in 1..Len(PrimaryHits) :
      \E j \in 1..Len(sr_call.results) :
        /\ sr_call.results[j].id = PrimaryHits[k].id
        /\ sr_call.results[j].score = PrimaryHits[k].score

\* context chunks were added to two primary hits
C6_Witness ==
  /\ ContextDone
  /\ sr_call.context_chunks >= 1
  /\ Len(PrimaryHits) = 2
  /\ Len(sr_call.results) > Len(PrimaryHits)

-----------------------------------------------------------------------------
SortedByDocumentAndIndex(results) ==
  \A a, b \in 1..Len(results) : a < b => ~KeyLess(results[b], results[a])

\* C7 as stated: for every context_chunks >= 0, context_chunks = 0 included,
\* the list search_with_context returns is in non-decreasing order of
\* (document_name, chunk_index).
C7_SortedForEveryContext ==
  ContextDone => SortedByDocumentAndIndex(sr_call.results)

\* C7, amended: for context_chunks >= 1 the list search_with_context returns
\* is in non-decreasing order of (document_name, chunk_index); for
\* context_chunks = 0 it is the list search returns, in the order of the
\* service.
C7_SortedWhenContextAsked ==
  ContextDone =>
    /\ sr_call.context_chunks >= 1 => SortedByDocumentAndIndex(sr_call.results)
    /\ sr_call.context_chunks = 0 => sr_call.results = PrimaryHits

\* context was asked for and the primary hits came out of order
C7_Witness ==
  /\ ContextDone
  /\ sr_call.context_chunks >= 1
  /\ Len(PrimaryHits) = 2
  /\ ~SortedByDocumentAndIndex(PrimaryHits)
  /\ Len(sr_call.results) >= 3

-----------------------------------------------------------------------------
\* C9: when embedding the query or querying the index fails, search raises
\* and returns no list, and the search_policies tool returns an error
\* result, which is not the success with found = FALSE and no results that
\* it returns when the search succeeds without a hit.
C9_FailureIsNotEmpty ==
  /\ (sr_call.op = "search" /\ sr_call.failed # "none") => sr_call.raised
  /\ (sr_call.op = "search_policies" /\ sr_call.failed # "none") =>
       /\ sr_call.result.status = "error"
       /\ sr_call.result # NotFound
  /\ (sr_call.op = "search_policies" /\ sr_call.failed = "none"
        /\ sr_call.hits = 0) => sr_call.result = NotFound

\* the tool has answered a failed search
C9_Witness ==
  /\ sr_call.op = "search_policies"
  /\ sr_call.failed = "store"
  /\ sr_call.result.status = "error"
  /\ store # {}

-----------------------------------------------------------------------------
(* The clients of one process, used by concurrent coroutines               *)

MaxTasks == 3

Tasks == 1..MaxTasks

InitClients ==
  /\ cl_openai = 0
  /\ cl_http = <<>>
  /\ cl_made = [openai |-> 0, http |-> 0]
  /\ cl_closes = 0
  /\ cl_tasks = [t \in Tasks |-> Ready]
  /\ ChunkIdle
  /\ EmbedIdle
  /\ GenIdle
  /\ IndexIdle
  /\ SearchIdle
  /\ TruncateIdle
  /\ ChunkIdIdle

NextClients ==
  \/ (\E t \in Tasks : UseEmbeddingClient(t)) /\ UNCHANGED cl_others
  \/ (\E t \in Tasks : GetHttpClient(t)) /\ UNCHANGED cl_others
  \/ (\E t \in Tasks : CallEnds(t)) /\ UNCHANGED cl_others
  \/ CloseHttpClient /\ UNCHANGED cl_others

SpecClients == InitClients /\ [][NextClients]_vars

\* C20: however the coroutines' uses interleave, at most one embedding
\* client is constructed and every coroutine in a request to the embedding
\* service holds that instance; as long as close() has not been called the
\* same holds of the http client: first uses never construct a second one.
C20_SingleInitialization ==
  /\ cl_made.openai <= 1
  /\ \A t \in DOMAIN cl_tasks :
       cl_tasks[t].pc = "embedding" =>
         cl_tasks[t].client = cl_openai /\ cl_openai = 1
  /\ cl_closes = 0 =>
       /\ cl_made.http <= 1
       /\ \A t \in DOMAIN cl_tasks :
            cl_tasks[t].pc = "graph" =>
              cl_http # <<>> /\ cl_tasks[t].client = cl_http[1].id

\* two coroutines are in requests to the embedding service at once, both on
\* the one instance constructed
C20_Witness ==
  /\ cl_made.openai = 1
  /\ \E t, u \in DOMAIN cl_tasks :
       /\ t # u
       /\ cl_tasks[t].pc = "embedding"
       /\ cl_tasks[u].pc = "embedding"

\* two coroutines are in Graph requests at once on the one http client
C20_WitnessHttp ==
  /\ cl_made.http = 1
  /\ cl_closes = 0
  /\ \E t, u \in DOMAIN cl_tasks :
       /\ t # u
       /\ cl_tasks[t].pc = "graph"
       /\ cl_tasks[u].pc = "graph"

-----------------------------------------------------------------------------
\* the ids of the chunks search(query, top_k) returns
PrimaryIds == {PrimaryHits[k].id : k \in 1..Len(PrimaryHits)}

\* a - b as a distance
Distance(a, b) == IF a >= b THEN a - b ELSE b - a

\* C21: every chunk search_with_context returns that is not a primary hit has
\* the document_id of some primary hit and a chunk_index within
\* context_chunks of that hit's chunk_index; no chunk of another document is
\* added.
C21_ContextWithinDocument ==
  ContextDone =>
    \A j \in 1..Len(sr_call.results) :
      sr_call.results[j].id \notin PrimaryIds =>
        \E h \in PrimaryIds :
          /\ RecordOf(store, sr_call.results[j].id).document_id
               = RecordOf(store, h).document_id
          /\ Distance(sr_call.results[j].chunk_index,
                      RecordOf(store, h).chunk_index) <= sr_call.context_chunks
          /\ sr_call.results[j].chunk_index >= 0

-----------------------------------------------------------------------------
\* index_document has returned twice in a row for documents of one id: the
\* step from the first return to the second
ReindexStep ==
  /\ ix_last.op = "index_document"
  /\ ~ix_last.raised
  /\ ix_last'.op = "index_document"
  /\ ~ix_last'.raised
  /\ ix_last'.document.id = ix_last.document.id

\* the chunk indices that the version indexed before and the version indexed
\* now both have, counted from 1
CommonIndices ==
  1..MinOf(Len(ChunksOf(ix_last.document.text)),
           Len(ChunksOf(ix_last'.document.text)))

\* the id the run before gave chunk k and the id this run gives it
IdBefore(k) ==
  chunk_id(ix_last.document.id, k - 1, ChunksOf(ix_last.document.text)[k])
IdNow(k) ==
  chunk_id(ix_last'.document.id, k - 1, ChunksOf(ix_last'.document.text)[k])

\* C22 as stated: when a document is indexed again, the chunk at an index
\* gets the id of the chunk indexed before at that index if and only if its
\* content is the content indexed before.
C22_NewIdIffContentChanged ==
  [][ReindexStep =>
       \A k \in CommonIndices :
         (IdNow(k) = IdBefore(k))
           <=> (ChunksOf(ix_last'.document.text)[k]
                  = ChunksOf(ix_last.document.text)[k])]_vars

\* C22 amended: the chunk at an index gets the id of the chunk indexed before
\* at that index if and only if the first 100 characters of its content are
\* those of the content indexed before; a change after the first 100
\* characters keeps the id.  The ids of a run that uploads are these ids.
C22_NewIdIffPrefixChanged ==
  [][ReindexStep =>
       /\ \A k \in CommonIndices :
            (IdNow(k) = IdBefore(k))
              <=> (Slice(ChunksOf(ix_last'.document.text)[k], 0, 100)
                     = Slice(ChunksOf(ix_last.document.text)[k], 0, 100))
       /\ ix_last'.uploaded =>
            ix_last'.chunk_ids =
              {IdNow(k) : k \in 1..Len(ChunksOf(ix_last'.document.text))}]_vars

\* a version was indexed in full over an earlier one: the record at index 0
\* with the new beginning stands beside the record of the old beginning
C22_Witness ==
  /\ IndexedInFull
  /\ ix_last.uploaded
  /\ \E r1, r2 \in ByDocumentId(store, ix_last.document.id) :
       /\ r1.chunk_index = 0
       /\ r2.chunk_index = 0
       /\ r1.id # r2.id
       /\ r1.id \in ix_last.chunk_ids
       /\ Slice(r1.content, 0, 100) # Slice(r2.content, 0, 100)

-----------------------------------------------------------------------------
(* C23                                                                     *)

\* span number i was appended by a pass that went on to search a break: it is
\* not the last chunk
NotLastChunk(i) == i < Len(ck_spans) \/ ck_pc = "loop"

\* the 0-based positions p of the cleaned text where pattern occurs with both
\* characters inside the search window of the pass that started at start
OccurrencesInWindow(pattern, start) ==
  LET search_start == MaxOf(start + CHUNK_SIZE - 100, start)
      search_end   == MinOf(start + CHUNK_SIZE + 100, Len(ck_text))
  IN  {p \in search_start..(search_end - Len(pattern)) :
         \A k \in 1..Len(pattern) : ck_text[p + k] = pattern[k]}

\* the occurrences of any sentence-ending pattern in that window
AnyOccurrences(start) ==
  UNION {OccurrencesInWindow(SentencePatterns[k], start) :
           k \in 1..Len(SentencePatterns)}

\* the first pattern, in the order of the list, that occurs in the window
FirstPatternFound(start) ==
  SentencePatterns[SetMin({k \in 1..Len(SentencePatterns) :
                             OccurrencesInWindow(SentencePatterns[k], start) # {}})]

\* C23 as stated: when the search window [start + 900, start + 1100) of a pass
\* holds a sentence-ending pattern, the break is placed right after the
\* rightmost occurrence in the window of any of the patterns.
C23_BreakAfterRightmostOfAny ==
  \A i \in 1..Len(ck_spans) :
    (NotLastChunk(i) /\ AnyOccurrences(ck_spans[i].start) # {}) =>
       ck_spans[i].best_break = SetMax(AnyOccurrences(ck_spans[i].start)) + 2

\* C23 amended: when the search window of a pass holds a sentence-ending
\* pattern, the break is placed right after the rightmost occurrence in the
\* window of the first pattern, in the order '. ', '? ', '! ', that occurs in
\* the window; an occurrence further right of a pattern later in that order
\* is passed over.
C23_BreakAfterRightmostOfFirst ==
  \A i \in 1..Len(ck_spans) :
    (NotLastChunk(i) /\ AnyOccurrences(ck_spans[i].start) # {}) =>
       ck_spans[i].best_break =
         SetMax(OccurrencesInWindow(FirstPatternFound(ck_spans[i].start),
                                    ck_spans[i].start)) + 2

\* a pass found '? ' in its window and, further right, '! ', and broke after
\* the '? '
C23_Witness ==
  /\ ck_pc = "done"
  /\ Len(ck_spans) >= 2
  /\ OccurrencesInWindow(<<"?", " ">>, 0) # {}
  /\ OccurrencesInWindow(<<"!", " ">>, 0) # {}
  /\ SetMax(OccurrencesInWindow(<<"!", " ">>, 0))
       > SetMax(OccurrencesInWindow(<<"?", " ">>, 0))
  /\ ck_spans[1].best_break = SetMax(OccurrencesInWindow(<<"?", " ">>, 0)) + 2

-----------------------------------------------------------------------------
(* The tokenizer on its own: one call of truncate_to_token_limit           *)

MaxTokenLen == 3
MaxTokens == 3

TruncateTexts == SeqsUpTo({"a", " "}, MaxTokenLen)
TruncateLimits == {<<>>} \cup {<<n>> : n \in 0..MaxTokens}

InitTruncate ==
  /\ tk_text \in TruncateTexts
  /\ tk_max \in TruncateLimits
  /\ tk_result = <<>>
  /\ tk_pc = "call"
  /\ ChunkIdle
  /\ EmbedIdle
  /\ GenIdle
  /\ IndexIdle
  /\ SearchIdle
  /\ ClientsIdle
  /\ ChunkIdIdle

NextTruncate ==
  \/ TruncateCall /\ UNCHANGED tk_others

SpecTruncate == InitTruncate /\ [][NextTruncate]_vars

\* C24: for every text and every max_tokens >= 0 that the caller passes, 0
\* included, truncate_to_token_limit returns the decoding of the first
\* min(max_tokens, count_tokens(text)) tokens of the text, returns the text
\* itself when it has at most max_tokens tokens, and returns a text of at
\* most max_tokens tokens.
C24_PrefixTruncation ==
  (tk_pc = "done" /\ tk_max # <<>>) =>
     LET max_tokens == tk_max[1]
         tokens     == encode(tk_text)
     IN  /\ tk_result = decode(SubSeq(tokens, 1, MinOf(max_tokens, Len(tokens))))
         /\ Len(tokens) <= max_tokens => tk_result = tk_text
         /\ count_tokens(tk_result) <= max_tokens

-----------------------------------------------------------------------------
(* The ids of two chunks                                                   *)

MaxIndex == 1

\* document ids and chunk beginnings, with and without the separator "_"
IdDocumentIds == {<<"d">>, <<"d", "_", "1">>, <<"d", "_", "0">>, <<"e">>}
IdChunks == {<<"x">>, <<"0", "_", "x">>, <<"1", "_", "x">>, <<"y">>}
IdTriples ==
  [document_id : IdDocumentIds, i : 0..MaxIndex, chunk : IdChunks]

InitChunkId ==
  /\ id_a \in IdTriples
  /\ id_b \in IdTriples
  /\ id_strings = <<>>
  /\ id_pc = "call"
  /\ ChunkIdle
  /\ EmbedIdle
  /\ GenIdle
  /\ IndexIdle
  /\ SearchIdle
  /\ ClientsIdle
  /\ TruncateIdle

NextChunkId ==
  \/ ComputeChunkIds /\ UNCHANGED id_others

SpecChunkId == InitChunkId /\ [][NextChunkId]_vars

\* (document_id, chunk_index, first 100 characters of the content)
KeyOf(t) == <<t.document_id, t.i, Slice(t.chunk, 0, 100)>>

\* C27: two chunks whose triples (document_id, chunk_index, first 100
\* characters of content) differ have different strings hashed for their ids.
C27_DistinctKeysDistinctIds ==
  (id_pc = "done" /\ KeyOf(id_a) # KeyOf(id_b)) => id_strings[1] # id_strings[2]

-----------------------------------------------------------------------------
(* C25, C26                                                                *)

\* C25: the chunks chunk_text returns begin at strictly increasing positions
\* of the cleaned text, each chunk is the stretch of the cleaned text from
\* where it begins to where it ends, and every position of the cleaned text
\* that holds a non-whitespace character lies in at least one chunk.
C25_Coverage ==
  ck_pc = "done" =>
    /\ Len(ck_spans) = Len(ck_chunks)
    /\ \A i \in 1..Len(ck_spans) :
         ck_chunks[i] = Slice(ck_text, ck_spans[i].begin, ck_spans[i].end)
    /\ \A i \in 1..(Len(ck_spans) - 1) :
         ck_spans[i].begin < ck_spans[i + 1].begin
    /\ \A p \in 0..(Len(ck_text) - 1) :
         ~IsSpace(ck_text[p + 1]) =>
            \E i \in 1..Len(ck_spans) :
              ck_spans[i].begin <= p /\ p < ck_spans[i].end

\* a call returned three chunks whose stretches overlap: the text is covered
\* by more than one pass of the loop and the last chunk
C25_Witness ==
  /\ ck_pc = "done"
  /\ Len(ck_chunks) >= 3
  /\ ck_spans[Len(ck_spans)].end = Len(ck_text)
  /\ \A i \in 1..(Len(ck_spans) - 1) : ck_spans[i + 1].begin < ck_spans[i].end

\* C26: with CHUNK_SIZE 1000 and CHUNK_OVERLAP 200 every pass of the loop that
\* does not return leaves start strictly greater than it was and never past
\* the end of the text, and no call is followed for so many passes that it
\* is given up: every call returns.
C26_StartAdvances ==
  [][(ck_pc = "loop" /\ ck_pc' = "loop") =>
       /\ ck_start' > ck_start
       /\ ck_start' < Len(ck_text)
       /\ Len(ck_chunks') < MaxPasses]_vars

\* a call went through the loop twice and then returned the last chunk
C26_Witness ==
  /\ ck_pc = "done"
  /\ Len(ck_spans) = 3
  /\ ck_spans[1].start = 0
  /\ ck_spans[2].start > ck_spans[1].start
  /\ ck_spans[3].start > ck_spans[2].start
  /\ ck_spans[3].best_break = Len(ck_text)

-----------------------------------------------------------------------------
(* C28                                                                     *)

\* the step is a call of index_document
IndexDocumentStep ==
  /\ ix_last'.op = "index_document"
  /\ <<store, ix_last>>' # <<store, ix_last>>

\* C28: a call of index_document in which the download or the embedding
\* raises, or whose document yields no text or no chunk, leaves the index as
\* it was (and returns 0 when it returns); a call that changes the index
\* has got to the upload, with a vector for every chunk of the document, and
\* changes only records of these chunks.
C28_NoWriteBeforeUpload ==
  [][IndexDocumentStep =>
       LET chunks == ChunksOf(ix_last'.document.text)
       IN  /\ (ix_last'.raised /\ ix_last'.cause \in {"download", "embedding"})
                => store' = store
           /\ (~ix_last'.raised /\ (ix_last'.document.text = <<>> \/ chunks = <<>>))
                => (store' = store /\ ix_last'.value = 0)
           /\ store' # store =>
                /\ ~ix_last'.raised
                /\ ix_last'.uploaded
                /\ Cardinality(ix_last'.chunk_ids) = Len(chunks)
                /\ \A r \in store' \ store :
                     /\ r.id \in ix_last'.chunk_ids
                     /\ r.content = chunks[r.chunk_index + 1]
                     /\ r.content_vector \in
                          {e[r.chunk_index + 1] : e \in EmbeddingsOf(chunks)}]_vars

\* the embedding failed in a call on a document whose earlier version is in
\* the index
C28_Witness ==
  /\ ix_last.op = "index_document"
  /\ ix_last.raised
  /\ ix_last.cause = "embedding"
  /\ ByDocumentId(store, ix_last.document.id) # {}
  /\ \A r \in ByDocumentId(store, ix_last.document.id) :
       r.content \notin {ChunksOf(ix_last.document.text)[k] :
                           k \in 1..Len(ChunksOf(ix_last.document.text))}

\* a document that yields no chunk was indexed over an earlier version
C28_WitnessNothing ==
  /\ ix_last.op = "index_document"
  /\ ~ix_last.raised
  /\ ChunksOf(ix_last.document.text) = <<>>
  /\ store # {}

-----------------------------------------------------------------------------
(* C29                                                                     *)

\* the number of batches of a call: ceil(len(texts) / batch_size)
BatchCount == (Len(em_texts) + em_batch_size - 1) \div em_batch_size

\* C29: whatever requests fail, a call of generate_embeddings_batch runs at
\* most 3 attempts, each from the first batch on with embeddings empty: in
\* the loop embeddings holds one vector for each text of the batches this
\* attempt has sent, a call that returns returns len(texts) vectors, the one
\* at position i computed for text i, and the call makes at most
\* 3 * ceil(len(texts) / batch_size) requests.
C29_RetryRestartsCall ==
  /\ em_attempt <= MAX_ATTEMPTS
  /\ em_requests <= MAX_ATTEMPTS * BatchCount
  /\ em_pc = "loop" =>
       /\ Len(em_embeddings) = MinOf(em_i, Len(em_texts))
       /\ \A k \in 1..Len(em_embeddings) :
            em_embeddings[k] = ServiceVector(em_processed[k])
  /\ em_pc = "done" =>
       /\ Len(em_result) = Len(em_texts)
       /\ em_result = [k \in 1..Len(em_texts) |-> ServiceVector(Preprocess(em_texts[k]))]

\* a call returned in its third attempt after the last batch of the first
\* and of the second attempt failed: it made every request of its budget
C29_Witness ==
  /\ em_pc = "done"
  /\ em_attempt = MAX_ATTEMPTS
  /\ BatchCount >= 2
  /\ em_requests = MAX_ATTEMPTS * BatchCount

-----------------------------------------------------------------------------
(* C30                                                                     *)

\* C30: in the list search_with_context returns, a chunk has the score 0.5
\* if and only if it is not one of the chunks search(query, top_k) returned:
\* those have a score of at least 0.7, the chunks added as context have
\* exactly 0.5, and no chunk is listed twice.
C30_SentinelScoreIffContext ==
  ContextDone =>
    /\ \A j \in 1..Len(sr_call.results) :
         LET r == sr_call.results[j]
         IN  /\ r.id \in PrimaryIds => r.score >= DEFAULT_MIN_SCORE
             /\ r.id \notin PrimaryIds => r.score = CONTEXT_SCORE
             /\ r.score = CONTEXT_SCORE <=> r.id \notin PrimaryIds
    /\ \A i, j \in 1..Len(sr_call.results) :
         sr_call.results[i].id = sr_call.results[j].id => i = j

\* a call returned a hit whose score is exactly 0.7 and a context chunk that
\* the service ranks for the query with a score above 0.5
C30_Witness ==
  /\ ContextDone
  /\ \E i, j \in 1..Len(sr_call.results) :
       /\ sr_call.results[i].id \in PrimaryIds
       /\ sr_call.results[i].score = DEFAULT_MIN_SCORE
       /\ sr_call.results[j].id \notin PrimaryIds
       /\ sr_call.results[j].score = CONTEXT_SCORE
       /\ \E k \in 1..Len(sr_hits) :
            /\ sr_hits[k].id = sr_call.results[j].id
            /\ sr_hits[k].score > CONTEXT_SCORE

====
